---- MODULE Spec2Model ----
(***************************************************************************)
(* A model of the map core of src/src/App.tsx: the viewBox animation       *)
(* (animateViewBox), the editorial-label choreography (hide/show), the     *)
(* selection orchestration effect, and the pure geometry helpers.          *)
(*                                                                         *)
(* Numbers.  JavaScript numbers are modelled in fixed point: one canvas    *)
(* unit is Q model units (thousandths), products and quotients are         *)
(* rounded down to a thousandth.  Ratios (scale, padding, easing) use the  *)
(* same representation.  Number.POSITIVE_INFINITY / NEGATIVE_INFINITY are  *)
(* the two values PosInf / NegInf, which lie beyond every finite value of  *)
(* the model so that < and > order them as JavaScript does.                *)
(*                                                                         *)
(* Scheduling.  The page is single threaded.  A handler (a UI event, a     *)
(* requestAnimationFrame callback, a timer callback) runs to completion;   *)
(* the promise continuations it makes runnable are microtasks, queued in   *)
(* `micro` and run before the next handler.  React state set by a handler  *)
(* is committed, and its mirror ref effects (App.tsx 848-854) are run,     *)
(* before the next handler.                                                *)
(***************************************************************************)
EXTENDS Integers, Sequences, FiniteSets, TLC

(***************************************************************************)
(* Bounds of the model.                                                    *)
(***************************************************************************)
MaxClicks == 3      \* member-shape activations in one behaviour
MaxCalls == 3       \* direct animateViewBox calls in one behaviour
FrameSteps == 2     \* sampled frame times inside one animation
GridN == 3          \* grid points per axis for the Bounds inputs
MaxFeatures == 2    \* features in one feature list
MergeN == 2         \* grid points per axis for the mergeBounds inputs
MaxRing == 3        \* entries in one ring of a polygon

(***************************************************************************)
(* Program constants (App.tsx 116-128); ratios are in thousandths.         *)
(***************************************************************************)
MAP_WIDTH == 960
MAP_HEIGHT == 620
MAP_PADDING == 24
ASEAN_FOCUS_PADDING == 1000
COUNTRY_PADDING_FACTOR == 1220
INDONESIA_PADDING_FACTOR == 900
INDONESIA_MIN_SCALE == 1580
MIN_COUNTRY_SCALE == 1000
MAX_COUNTRY_SCALE == 10000
ZOOM_ANIMATION_MS == 360
RESET_ANIMATION_MS == 500
LABEL_EXIT_TOTAL_MS == 860

Q == 10 * 100
PosInf == 2000 * Q * Q
NegInf == 0 - PosInf

FMul(a, b) == (a * b) \div Q
FDiv(a, b) == (a * Q) \div b
Min2(a, b) == IF a < b THEN a ELSE b
Max2(a, b) == IF a > b THEN a ELSE b
Abs(a) == IF a < 0 THEN 0 - a ELSE a
IsFinite(a) == a # PosInf /\ a # NegInf

MapW == MAP_WIDTH * Q
MapH == MAP_HEIGHT * Q
FULL_VIEWBOX == [x |-> 0, y |-> 0, width |-> MapW, height |-> MapH]

Indonesia == "インドネシア"
Myanmar == "ミャンマー"
Thailand == "タイ"

(***************************************************************************)
(* clamp, App.tsx 771-773.                                                 *)
(***************************************************************************)
clamp(value, min, max) == Min2(max, Max2(min, value))

(***************************************************************************)
(* viewBoxForCountry, App.tsx 775-800.                                     *)
(***************************************************************************)
fitExtent(bounds) ==
    [width |-> Max2(bounds.maxX - bounds.minX, (MapW * 5) \div 100),
     height |-> Max2(bounds.maxY - bounds.minY, (MapH * 5) \div 100)]

fitScaleOf(countryName, bounds) ==
    LET width == fitExtent(bounds).width
        height == fitExtent(bounds).height
        paddingFactor == IF countryName = Indonesia
                         THEN INDONESIA_PADDING_FACTOR ELSE COUNTRY_PADDING_FACTOR
        fitWidthRatio == IF countryName = Indonesia THEN Q ELSE 900
        fitHeightRatio == IF countryName = Indonesia THEN 920 ELSE 900
    IN  Min2(FDiv(FMul(MapW, fitWidthRatio), FMul(width, paddingFactor)),
             FDiv(FMul(MapH, fitHeightRatio), FMul(height, paddingFactor)))

ScaleWithoutCap(countryName, bounds) ==
    LET minScale == IF countryName = Indonesia
                    THEN INDONESIA_MIN_SCALE ELSE MIN_COUNTRY_SCALE
    IN  Max2(minScale, fitScaleOf(countryName, bounds))

zoomScale(countryName, bounds) ==
    LET minScale == IF countryName = Indonesia
                    THEN INDONESIA_MIN_SCALE ELSE MIN_COUNTRY_SCALE
    IN  clamp(Max2(minScale, fitScaleOf(countryName, bounds)),
              MIN_COUNTRY_SCALE, MAX_COUNTRY_SCALE)

ViewBoxUnclamped(countryName, bounds) ==
    LET scale == zoomScale(countryName, bounds)
        centerX == (bounds.minX + bounds.maxX) \div 2
        centerY == (bounds.minY + bounds.maxY) \div 2
        zoomWidth == FDiv(MapW, scale)
        zoomHeight == FDiv(MapH, scale)
    IN  [x |-> centerX - zoomWidth \div 2,
         y |-> centerY - zoomHeight \div 2,
         width |-> zoomWidth,
         height |-> zoomHeight]

viewBoxForCountry(countryName, bounds) ==
    LET scale == zoomScale(countryName, bounds)
        centerX == (bounds.minX + bounds.maxX) \div 2
        centerY == (bounds.minY + bounds.maxY) \div 2
        zoomWidth == FDiv(MapW, scale)
        zoomHeight == FDiv(MapH, scale)
    IN  [x |-> clamp(centerX - zoomWidth \div 2, 0, MapW - zoomWidth),
         y |-> clamp(centerY - zoomHeight \div 2, 0, MapH - zoomHeight),
         width |-> zoomWidth,
         height |-> zoomHeight]

(***************************************************************************)
(* boxesAlmostEqual, App.tsx 802-810; eps = 0.01.                          *)
(***************************************************************************)
BoxesAtMostEpsilonApart(a, b) ==
    LET eps == Q \div 100
    IN  /\ Abs(a.x - b.x) <= eps
        /\ Abs(a.y - b.y) <= eps
        /\ Abs(a.width - b.width) <= eps
        /\ Abs(a.height - b.height) <= eps

boxesAlmostEqual(a, b) ==
    LET eps == Q \div 100
    IN  /\ Abs(a.x - b.x) < eps
        /\ Abs(a.y - b.y) < eps
        /\ Abs(a.width - b.width) < eps
        /\ Abs(a.height - b.height) < eps

(***************************************************************************)
(* The country bounds that buildMapPaths derives from the three-feature    *)
(* collection of App.test.tsx 20-72 (Myanmar and Thailand are members, the *)
(* third feature is context), in thousandths of a canvas unit.             *)
(***************************************************************************)
LoadedBounds ==
    (Myanmar :> [minX |-> 292176, minY |-> 24000, maxX |-> 506832, maxY |-> 314551])
    @@ (Thailand :> [minX |-> 506832, minY |-> 314551, maxX |-> 667824, maxY |-> 596000])
NoBounds == [n \in {} |-> FULL_VIEWBOX]

(***************************************************************************)
(* JavaScript values of a parsed feature collection: arrays, numbers (a    *)
(* whole number of degrees, or Infinity, which JSON.parse yields for a     *)
(* literal such as 1e999), strings, null and objects.  Iterating a string  *)
(* yields its characters, none of which is an array: v holds what a loop   *)
(* that skips non-arrays sees of it, nothing.  TestFeatures is the feature *)
(* collection of App.test.tsx 20-72.                                       *)
(***************************************************************************)
Arr(s) == [t |-> "array", v |-> s]
Num(n) == [t |-> "number", v |-> n]
Str == [t |-> "string", v |-> <<>>]
Null == [t |-> "null", v |-> <<>>]
IsArray(value) == value.t = "array"
Point(lon, lat) == Arr(<<Num(lon), Num(lat)>>)
Geometry(type, coordinates) == [t |-> "object", v |-> [type |-> type, coordinates |-> coordinates]]
Square(w, n, e, s) ==
    Arr(<<Arr(<<Point(w, n), Point(e, n), Point(e, s), Point(w, s), Point(w, n)>>)>>)
TestFeatures ==
    <<[iso3 |-> "MMR", geometry |-> Geometry("Polygon", Square(95, 25, 99, 20))],
      [iso3 |-> "THA", geometry |-> Geometry("Polygon", Square(99, 20, 102, 15))],
      [iso3 |-> "CHN", geometry |-> Geometry("Polygon", Square(103, 25, 106, 21))]>>

NoLabel == [countryName |-> "none", phase |-> "none"]
NoHover == "none"
NoTwin == [s |-> "none", target |-> FULL_VIEWBOX, p1 |-> 0, p2 |-> 0]
LoaderStart == [next |-> 1, state |-> "fetching", log |-> <<>>]

VARIABLES
    selectedCountry,            \* useState, App.tsx 835
    hoveredCountry,             \* useState, App.tsx 836
    activeLabel,                \* useState 837 and its mirror ref 844
    viewBox,                    \* useState 839 and viewBoxRef 841
    countryBounds,              \* useMemo 898: empty until the map has loaded
    viewBoxAnimationRef,        \* 842: handle of the pending step callback, 0 = null
    viewBoxAnimationResolveRef, \* 843: promise the pending resolver settles, 0 = null
    labelExitTimerRef,          \* 845: handle of the exit timer, 0 = null
    transitionRunRef,           \* 846: the run-id counter
    frames,                     \* pending requestAnimationFrame callbacks, in order
    timers,                     \* pending setTimeout callbacks
    micro,                      \* promise continuations made runnable, in order
    animPromises,               \* unsettled promises returned by animateViewBox
    mounted,                    \* FALSE once the unmount cleanup has run
    clicks,                     \* member-shape activations so far
    calls,                      \* direct animateViewBox calls so far
    earlyAll,                   \* the latest selection was "all", made before the
                                \* zoom of the previously selected member completed
    fromIdle,                   \* the latest selection is a member, chosen while the
                                \* page was idle at the full view
    twin,                       \* two back-to-back calls with one target, from idle
    geoFeatures,                \* useState, App.tsx 834
    mapError,                   \* useState, App.tsx 838
    loader,                     \* the run of loadMapFeatures in the map-load effect
    fnIn, fnOut                 \* argument and result of a pure function under test

vars == <<selectedCountry, hoveredCountry, activeLabel, viewBox, countryBounds,
          viewBoxAnimationRef, viewBoxAnimationResolveRef, labelExitTimerRef,
          transitionRunRef, frames, timers, micro, animPromises, mounted,
          clicks, calls, earlyAll, fromIdle, twin, geoFeatures, mapError, loader,
          fnIn, fnOut>>

uiVars == <<selectedCountry, hoveredCountry, countryBounds, mounted>>
ghostVars == <<clicks, calls, earlyAll, fromIdle, twin>>
fnVars == <<fnIn, fnOut>>
loadVars == <<geoFeatures, mapError, loader>>

(***************************************************************************)
(* The mutable state the handlers work on, as one record, so that the      *)
(* statements of a handler compose in program order.                       *)
(***************************************************************************)
Store ==
    [viewBox |-> viewBox,
     animRef |-> viewBoxAnimationRef,
     resolveRef |-> viewBoxAnimationResolveRef,
     label |-> activeLabel,
     timerRef |-> labelExitTimerRef,
     run |-> transitionRunRef,
     frames |-> frames,
     timers |-> timers,
     micro |-> micro,
     promises |-> animPromises]

(***************************************************************************)
(* The refs take what the handler wrote.  activeLabel is React state,      *)
(* mirrored into activeLabelRef by the effect of App.tsx 852-854: a        *)
(* setActiveLabel made once the component is unmounted is dropped.         *)
(***************************************************************************)
Commit(st) ==
    /\ viewBox' = st.viewBox
    /\ viewBoxAnimationRef' = st.animRef
    /\ viewBoxAnimationResolveRef' = st.resolveRef
    /\ activeLabel' = IF mounted THEN st.label ELSE activeLabel
    /\ labelExitTimerRef' = st.timerRef
    /\ transitionRunRef' = st.run
    /\ frames' = st.frames
    /\ timers' = st.timers
    /\ micro' = st.micro
    /\ animPromises' = st.promises

(***************************************************************************)
(* Host primitives: handles are the smallest positive integer not held by  *)
(* a pending callback.                                                     *)
(***************************************************************************)
SmallestFree(used) ==
    CHOOSE h \in 1..(Cardinality(used) + 1) :
        h \notin used /\ \A k \in 1..(h - 1) : k \in used

FrameIds(fs) == {fs[i].id : i \in 1..Len(fs)}
SelectSeq2(fs, id) ==
    LET keep(f) == f.id # id IN SelectSeq(fs, keep)
cancelAnimationFrame(fs, id) == SelectSeq2(fs, id)
clearTimeout(ts, id) == {t \in ts : t.id # id}

(***************************************************************************)
(* Settling a promise returned by animateViewBox: the continuation that    *)
(* awaits it (App.tsx 1035-1036) becomes a microtask.  The continuations   *)
(* of lines 1020-1021 and 1031-1032 return at once and are not queued.     *)
(***************************************************************************)
(***************************************************************************)
(* Then(v, F) is F(v) with v evaluated once: the statements of a handler,  *)
(* each working on the store its predecessor left.                         *)
(***************************************************************************)
Then(v, F(_)) == CHOOSE r \in {F(x) : x \in {v}} : TRUE

ResolveKeepPending(st, p) == st

Resolve(st, p) ==
    LET mine == {r \in st.promises : r.p = p}
        woken == {r \in mine : r.then # "none"}
    IN  [st EXCEPT
            !.promises = @ \ mine,
            !.micro = IF woken = {} THEN @
                      ELSE LET r == CHOOSE w \in woken : TRUE
                           IN  Append(@, [kind |-> "afterAnim", runId |-> r.p,
                                          sel |-> r.then])]

(***************************************************************************)
(* animateViewBox, App.tsx 913-931 and 969: the body of the promise        *)
(* executor up to the first requestAnimationFrame.  p names the promise    *)
(* returned and `then` the selection whose run awaits it ("none" when the  *)
(* continuation does nothing).                                             *)
(***************************************************************************)
ForgetPendingFrame(st) == [st EXCEPT !.animRef = 0]

cancelPendingFrame(st) ==
    IF st.animRef # 0
    THEN [st EXCEPT !.frames = cancelAnimationFrame(@, st.animRef), !.animRef = 0]
    ELSE st

DropPendingResolver(st) == [st EXCEPT !.resolveRef = 0]

resolvePending(st) ==
    IF st.resolveRef # 0
    THEN Resolve([st EXCEPT !.resolveRef = 0], st.resolveRef)
    ELSE st

RequestStepWithoutHandle(st, target, durationMs, p) ==
    LET h == SmallestFree(FrameIds(st.frames))
    IN  [st EXCEPT
            !.resolveRef = p,
            !.frames = Append(@, [id |-> h, kind |-> "step",
                                  from |-> st.viewBox, target |-> target,
                                  durationMs |-> durationMs,
                                  resolve |-> p, seen |-> 0])]

requestStep(st, target, durationMs, p) ==
    LET h == SmallestFree(FrameIds(st.frames))
    IN  [st EXCEPT
            !.resolveRef = p,
            !.animRef = h,
            !.frames = Append(@, [id |-> h, kind |-> "step",
                                  from |-> st.viewBox, target |-> target,
                                  durationMs |-> durationMs,
                                  resolve |-> p, seen |-> 0])]

animateViewBox(st, target, durationMs, p, then) ==
    IF boxesAlmostEqual(st.viewBox, target)
    THEN Then([st EXCEPT !.viewBox = target,
                         !.promises = @ \cup {[p |-> p, then |-> then]}],
              LAMBDA s : Resolve(s, p))
    ELSE Then(Then(Then([st EXCEPT !.promises = @ \cup {[p |-> p, then |-> then]}],
                        cancelPendingFrame),
                   resolvePending),
              LAMBDA s : requestStep(s, target, durationMs, p))

(***************************************************************************)
(* The frame times an animation may observe: now - startAt in ms for the   *)
(* i-th sample.  A frame timestamp may lie before the performance.now()    *)
(* taken at the call (sample 1), equal it (sample 2), fall inside the      *)
(* duration, hit it exactly, or lie past it (last sample).  Successive     *)
(* frames of one animation observe strictly later samples.                 *)
(***************************************************************************)
NumSamples == FrameSteps + 3
Elapsed(durationMs, i) ==
    IF i = 1 THEN 0 - 4
    ELSE IF i = NumSamples THEN durationMs + 16
    ELSE ((i - 2) * durationMs) \div FrameSteps

easeOutCubic(t) == Q - ((Q - t) * (Q - t) * (Q - t)) \div (Q * Q)

(***************************************************************************)
(* step, App.tsx 937-967: one frame callback of an animation; f is the     *)
(* callback (already taken off the frame queue), i the sample of `now`.    *)
StepLeavesHandle(st, f, i, t, e) ==
    LET next == [x |-> f.from.x + FMul(f.target.x - f.from.x, e),
                 y |-> f.from.y + FMul(f.target.y - f.from.y, e),
                 width |-> f.from.width + FMul(f.target.width - f.from.width, e),
                 height |-> f.from.height + FMul(f.target.height - f.from.height, e)]
    IN  IF t < Q
        THEN LET h == SmallestFree(FrameIds(st.frames))
             IN  [st EXCEPT !.viewBox = next,
                            !.frames = Append(@, [f EXCEPT !.id = h, !.seen = i]),
                            !.animRef = h]
        ELSE IF st.resolveRef # 0
             THEN Resolve([st EXCEPT !.viewBox = f.target,
                                     !.resolveRef = 0], st.resolveRef)
             ELSE Resolve([st EXCEPT !.viewBox = f.target, !.animRef = 0], f.resolve)

(***************************************************************************)
stepFrom(st, f, i, t, e) ==
    LET next == [x |-> f.from.x + FMul(f.target.x - f.from.x, e),
                 y |-> f.from.y + FMul(f.target.y - f.from.y, e),
                 width |-> f.from.width + FMul(f.target.width - f.from.width, e),
                 height |-> f.from.height + FMul(f.target.height - f.from.height, e)]
    IN  IF t < Q
        THEN LET h == SmallestFree(FrameIds(st.frames))
             IN  [st EXCEPT !.viewBox = next,
                            !.frames = Append(@, [f EXCEPT !.id = h, !.seen = i]),
                            !.animRef = h]
        ELSE IF st.resolveRef # 0
             THEN Resolve([st EXCEPT !.viewBox = f.target, !.animRef = 0,
                                     !.resolveRef = 0], st.resolveRef)
             ELSE Resolve([st EXCEPT !.viewBox = f.target, !.animRef = 0], f.resolve)

step(st, f, i) ==
    Then(Min2(Q, FDiv(Elapsed(f.durationMs, i), f.durationMs)),
         LAMBDA t : Then(easeOutCubic(t), LAMBDA e : stepFrom(st, f, i, t, e)))

HideResolvesEarly(st, runId, sel) ==
    IF st.label = NoLabel
    THEN [st EXCEPT !.micro = Append(@, [kind |-> "afterHide", runId |-> runId,
                                         sel |-> sel])]
    ELSE LET st1 == [st EXCEPT !.label = [countryName |-> st.label.countryName,
                                          phase |-> "exiting"]]
             ts == IF st1.timerRef # 0 THEN clearTimeout(st1.timers, st1.timerRef)
                   ELSE st1.timers
             h == SmallestFree({t.id : t \in ts})
         IN  [st1 EXCEPT !.timers = ts \cup {[id |-> h, runId |-> runId, sel |-> sel,
                                             delay |-> LABEL_EXIT_TOTAL_MS]},
                         !.timerRef = h,
                         !.micro = Append(@, [kind |-> "afterHide", runId |-> runId,
                                              sel |-> sel])]

(***************************************************************************)
(* hideEditorialLabel, App.tsx 973-996, up to the timer being armed.       *)
(***************************************************************************)
HideSkipsExit(st, runId, sel) ==
    [st EXCEPT !.label = NoLabel,
               !.micro = Append(@, [kind |-> "afterHide", runId |-> runId,
                                    sel |-> sel])]

hideEditorialLabel(st, runId, sel) ==
    IF st.label = NoLabel
    THEN [st EXCEPT !.micro = Append(@, [kind |-> "afterHide", runId |-> runId,
                                         sel |-> sel])]
    ELSE LET st1 == [st EXCEPT !.label = [countryName |-> st.label.countryName,
                                          phase |-> "exiting"]]
             ts == IF st1.timerRef # 0 THEN clearTimeout(st1.timers, st1.timerRef)
                   ELSE st1.timers
             h == SmallestFree({t.id : t \in ts})
         IN  [st1 EXCEPT !.timers = ts \cup {[id |-> h, runId |-> runId, sel |-> sel,
                                             delay |-> LABEL_EXIT_TOTAL_MS]},
                         !.timerRef = h]

(***************************************************************************)
(* The exit timer's callback, App.tsx 986-994.                             *)
(***************************************************************************)
ExitTimerInert(st, tm) == [st EXCEPT !.timers = @ \ {tm}]

exitTimerExpired(st, tm) ==
    LET st1 == [st EXCEPT !.timers = @ \ {tm}]
        wake == [kind |-> "afterHide", runId |-> tm.runId, sel |-> tm.sel]
    IN  IF tm.runId # st1.run
        THEN [st1 EXCEPT !.micro = Append(@, wake)]
        ELSE [st1 EXCEPT !.label = NoLabel, !.timerRef = 0, !.micro = Append(@, wake)]

(***************************************************************************)
(* showEditorialLabel, App.tsx 998-1006, and its frame callback.           *)
(***************************************************************************)
ShowVisibleAtOnce(st, countryName, runId) ==
    [st EXCEPT !.label = [countryName |-> countryName, phase |-> "visible"]]

showEditorialLabel(st, countryName, runId) ==
    LET h == SmallestFree(FrameIds(st.frames))
    IN  [st EXCEPT !.label = [countryName |-> countryName, phase |-> "entering"],
                   !.frames = Append(@, [id |-> h, kind |-> "flip", runId |-> runId,
                                         countryName |-> countryName])]

FlipUnguarded(st, f) ==
    IF st.label # NoLabel /\ st.label.countryName = f.countryName
    THEN [st EXCEPT !.label = [countryName |-> f.countryName, phase |-> "visible"]]
    ELSE st

flipToVisible(st, f) ==
    IF f.runId # st.run
    THEN st
    ELSE IF st.label # NoLabel /\ st.label.countryName = f.countryName
         THEN [st EXCEPT !.label = [countryName |-> f.countryName, phase |-> "visible"]]
         ELSE st

(***************************************************************************)
(* The selection effect, App.tsx 1008-1044: the part that runs inside the  *)
(* effect (to the first await), and the two continuations of execute.      *)
(***************************************************************************)
KeepExitTimer(st) == st

clearExitTimer(st) ==
    IF st.timerRef # 0
    THEN [st EXCEPT !.timers = clearTimeout(@, st.timerRef), !.timerRef = 0]
    ELSE st

SelectionEffectSameRun(st, sel) ==
    Then(clearExitTimer(st),
         LAMBDA s : IF sel = "all"
                    THEN animateViewBox([s EXCEPT !.label = NoLabel], FULL_VIEWBOX,
                                        RESET_ANIMATION_MS, s.run, "none")
                    ELSE hideEditorialLabel(s, s.run, sel))

selectionEffect(st, sel) ==
    Then(clearExitTimer([st EXCEPT !.run = @ + 1]),
         LAMBDA s : IF sel = "all"
                    THEN animateViewBox([s EXCEPT !.label = NoLabel], FULL_VIEWBOX,
                                        RESET_ANIMATION_MS, s.run, "none")
                    ELSE hideEditorialLabel(s, s.run, sel))

AfterHideShowsAnyway(st, m, cb) ==
    IF m.runId # st.run
    THEN st
    ELSE IF m.sel \notin DOMAIN cb
         THEN animateViewBox(st, FULL_VIEWBOX, ZOOM_ANIMATION_MS, m.runId, m.sel)
         ELSE Then(viewBoxForCountry(m.sel, cb[m.sel]),
                   LAMBDA target : animateViewBox(st, target, ZOOM_ANIMATION_MS,
                                                  m.runId, m.sel))

afterHide(st, m, cb) ==
    IF m.runId # st.run
    THEN st
    ELSE IF m.sel \notin DOMAIN cb
         THEN animateViewBox(st, FULL_VIEWBOX, ZOOM_ANIMATION_MS, m.runId, "none")
         ELSE Then(viewBoxForCountry(m.sel, cb[m.sel]),
                   LAMBDA target : animateViewBox(st, target, ZOOM_ANIMATION_MS,
                                                  m.runId, m.sel))

AfterAnimateSilent(st, m) == st

AfterAnimateUnguarded(st, m) == showEditorialLabel(st, m.sel, m.runId)

afterAnimate(st, m) ==
    IF m.runId # st.run THEN st ELSE showEditorialLabel(st, m.sel, m.runId)

runContinuation(st, m, cb) ==
    IF m.kind = "afterHide" THEN afterHide(st, m, cb) ELSE afterAnimate(st, m)

(***************************************************************************)
(* onSelectCountry, App.tsx 1068-1071.                                     *)
(***************************************************************************)
SelectWithoutToggle(prev, hovered, countryName) ==
    [selectedCountry |-> countryName, hoveredCountry |-> NoHover]

onSelectCountry(prev, hovered, countryName) ==
    [selectedCountry |-> IF prev = countryName THEN "all" ELSE countryName,
     hoveredCountry |-> NoHover]

(***************************************************************************)
(* The unmount cleanup, App.tsx 881-896.                                   *)
(***************************************************************************)
unmountCleanup(st) ==
    Then(Then(Then(st, cancelPendingFrame), resolvePending), clearExitTimer)

(***************************************************************************)
(* State after construction and the first run of the selection effect      *)
(* (selection "all", no map data yet).                                     *)
(***************************************************************************)
Constructed ==
    [viewBox |-> FULL_VIEWBOX, animRef |-> 0, resolveRef |-> 0, label |-> NoLabel,
     timerRef |-> 0, run |-> 0, frames |-> <<>>, timers |-> {}, micro |-> <<>>,
     promises |-> {}]

InitStore(st) ==
    /\ viewBox = st.viewBox
    /\ viewBoxAnimationRef = st.animRef
    /\ viewBoxAnimationResolveRef = st.resolveRef
    /\ activeLabel = st.label
    /\ labelExitTimerRef = st.timerRef
    /\ transitionRunRef = st.run
    /\ frames = st.frames
    /\ timers = st.timers
    /\ micro = st.micro
    /\ animPromises = st.promises

Init ==
    /\ InitStore(selectionEffect(Constructed, "all"))
    /\ selectedCountry = "all"
    /\ hoveredCountry = NoHover
    /\ countryBounds = NoBounds
    /\ mounted = TRUE
    /\ clicks = 0
    /\ calls = 0
    /\ earlyAll = FALSE
    /\ fromIdle = FALSE
    /\ twin = NoTwin
    /\ geoFeatures = <<>>
    /\ mapError = ""
    /\ loader = LoaderStart
    /\ fnIn = <<>>
    /\ fnOut = <<>>

Quiescent == micro = <<>> /\ frames = <<>> /\ timers = {}

IdleFull ==
    /\ selectedCountry = "all"
    /\ DOMAIN countryBounds # {}
    /\ viewBox = FULL_VIEWBOX
    /\ viewBoxAnimationRef = 0
    /\ activeLabel = NoLabel
    /\ Quiescent

LabelShownFor(c) ==
    /\ activeLabel # NoLabel
    /\ activeLabel.countryName = c
    /\ activeLabel.phase \in {"entering", "visible"}

(***************************************************************************)
(* The map data arrives (App.tsx 856-879): countryBounds changes, so the   *)
(* selection effect runs again (its dependency list, line 1044).           *)
(***************************************************************************)
MapLoaded ==
    /\ mounted
    /\ micro = <<>>
    /\ DOMAIN countryBounds = {}
    /\ countryBounds' = LoadedBounds
    /\ \E st \in {selectionEffect(Store, selectedCountry)} : Commit(st)
    /\ geoFeatures' = TestFeatures
    /\ loader' = [loader EXCEPT !.state = "returned",
                                !.log = Append(@, [path |-> "/data/asean_context_10m.geojson",
                                                   kind |-> "features"])]
    /\ UNCHANGED <<selectedCountry, hoveredCountry, mounted, mapError>>
    /\ UNCHANGED ghostVars
    /\ UNCHANGED fnVars

(***************************************************************************)
(* A member shape is activated (App.tsx 1196-1206): onSelectCountry, then  *)
(* the render and the selection effect it causes.  Shapes exist only for   *)
(* names that have bounds, so the reset of lines 900-904 does not apply.   *)
(***************************************************************************)
Activate(c) ==
    /\ mounted
    /\ micro = <<>>
    /\ clicks < MaxClicks
    /\ c \in DOMAIN countryBounds
    /\ LET r == onSelectCountry(selectedCountry, hoveredCountry, c)
       IN  /\ selectedCountry' = r.selectedCountry
           /\ hoveredCountry' = r.hoveredCountry
           /\ earlyAll' = (/\ r.selectedCountry = "all"
                           /\ selectedCountry # "all"
                           /\ ~LabelShownFor(selectedCountry))
           /\ fromIdle' = (IdleFull /\ r.selectedCountry # "all")
           /\ \E st \in {selectionEffect(Store, r.selectedCountry)} : Commit(st)
    /\ clicks' = clicks + 1
    /\ UNCHANGED <<countryBounds, mounted, calls, twin>>
    /\ UNCHANGED fnVars
    /\ UNCHANGED loadVars

Click(c) == Activate(c)

KeyDown(c, key) ==
    IF key # "Enter" /\ key # " "
    THEN /\ mounted
         /\ c \in DOMAIN countryBounds
         /\ UNCHANGED vars
    ELSE Activate(c)

MouseEnter(c) ==
    /\ mounted
    /\ micro = <<>>
    /\ c \in DOMAIN countryBounds
    /\ hoveredCountry' = c
    /\ UNCHANGED <<selectedCountry, activeLabel, viewBox, countryBounds,
                   viewBoxAnimationRef, viewBoxAnimationResolveRef,
                   labelExitTimerRef, transitionRunRef, frames, timers, micro,
                   animPromises, mounted>>
    /\ UNCHANGED ghostVars
    /\ UNCHANGED fnVars
    /\ UNCHANGED loadVars

MouseLeave ==
    /\ mounted
    /\ micro = <<>>
    /\ hoveredCountry # NoHover
    /\ hoveredCountry' = NoHover
    /\ UNCHANGED <<selectedCountry, activeLabel, viewBox, countryBounds,
                   viewBoxAnimationRef, viewBoxAnimationResolveRef,
                   labelExitTimerRef, transitionRunRef, frames, timers, micro,
                   animPromises, mounted>>
    /\ UNCHANGED ghostVars
    /\ UNCHANGED fnVars
    /\ UNCHANGED loadVars

(***************************************************************************)
(* Host callbacks.  A callback runs only when no microtask is pending.     *)
(***************************************************************************)
FrameStep(i) ==
    /\ micro = <<>>
    /\ frames # <<>>
    /\ Head(frames).kind = "step"
    /\ i > Head(frames).seen
    /\ \E st \in {step([Store EXCEPT !.frames = Tail(@)], Head(frames), i)} :
          Commit(st)
    /\ twin' = IF twin.s = "first" THEN NoTwin ELSE twin
    /\ UNCHANGED uiVars
    /\ UNCHANGED <<clicks, calls, earlyAll, fromIdle>>
    /\ UNCHANGED fnVars
    /\ UNCHANGED loadVars

FrameFlip ==
    /\ micro = <<>>
    /\ frames # <<>>
    /\ Head(frames).kind = "flip"
    /\ \E st \in {flipToVisible([Store EXCEPT !.frames = Tail(@)], Head(frames))} :
          Commit(st)
    /\ UNCHANGED uiVars
    /\ UNCHANGED ghostVars
    /\ UNCHANGED fnVars
    /\ UNCHANGED loadVars

TimerFire(tm) ==
    /\ micro = <<>>
    /\ tm \in timers
    /\ \E st \in {exitTimerExpired(Store, tm)} : Commit(st)
    /\ UNCHANGED uiVars
    /\ UNCHANGED ghostVars
    /\ UNCHANGED fnVars
    /\ UNCHANGED loadVars

RunMicrotask ==
    /\ micro # <<>>
    /\ \E st \in {runContinuation([Store EXCEPT !.micro = Tail(@)], Head(micro),
                                   countryBounds)} :
          Commit(st)
    /\ UNCHANGED uiVars
    /\ UNCHANGED ghostVars
    /\ UNCHANGED fnVars
    /\ UNCHANGED loadVars

HostStep ==
    \/ \E i \in 1..NumSamples : FrameStep(i)
    \/ FrameFlip
    \/ \E tm \in timers : TimerFire(tm)
    \/ RunMicrotask

Next ==
    \/ MapLoaded
    \/ \E c \in {Myanmar, Thailand} : Click(c)
    \/ \E c \in {Myanmar, Thailand}, key \in {"Enter", " ", "Tab"} : KeyDown(c, key)
    \/ \E c \in {Myanmar, Thailand} : MouseEnter(c)
    \/ MouseLeave
    \/ HostStep

Spec == Init /\ [][Next]_vars

(***************************************************************************)
(* The host keeps running pending frame callbacks, timers and microtasks;  *)
(* a later frame of an animation observes a later time, so every chain of  *)
(* host steps ends.                                                        *)
(***************************************************************************)
FairSpec ==
    /\ Init
    /\ [][Next]_vars
    /\ WF_vars(HostStep)

\* C1: when a member with loaded bounds is selected and "all" is selected
\* before that member's zoom-in has completed (even before its first frame),
\* then once every pending frame callback, timer and continuation has run
\* the viewBox is exactly the full canvas, no viewBox animation is in flight
\* and activeLabel is null.
C1_EarlyAllEndsAtFullView ==
    (earlyAll /\ Quiescent) =>
        /\ viewBox = FULL_VIEWBOX
        /\ viewBoxAnimationRef = 0
        /\ activeLabel = NoLabel

\* C2: whenever activeLabel is entering or visible for a country, no viewBox
\* animation is in flight and the viewBox is that country's viewBox.
C2_LabelOnlyOverItsViewBox ==
    \A c \in DOMAIN countryBounds :
        LabelShownFor(c) =>
            /\ viewBoxAnimationRef = 0
            /\ viewBox = viewBoxForCountry(c, countryBounds[c])

\* C4: a change of the selection to "all" sets activeLabel to null in the
\* same step, without the exiting phase or a timer, and asks for an animation
\* to the full canvas with the 500 ms reset duration; and when all pending
\* work has run with "all" still selected, the viewBox is exactly the full
\* canvas and activeLabel is null.
C4_AllClearsLabelAndReturnsToFullView ==
    /\ [][(selectedCountry' = "all" /\ selectedCountry # "all") =>
            /\ activeLabel' = NoLabel
            /\ timers' = {}
            /\ \/ viewBox' = FULL_VIEWBOX /\ viewBoxAnimationResolveRef' # transitionRunRef'
               \/ /\ viewBoxAnimationResolveRef' = transitionRunRef'
                  /\ \E i \in 1..Len(frames') :
                        /\ frames'[i].kind = "step"
                        /\ frames'[i].target = FULL_VIEWBOX
                        /\ frames'[i].durationMs = RESET_ANIMATION_MS]_vars
    /\ []((selectedCountry = "all" /\ Quiescent) =>
            (viewBox = FULL_VIEWBOX /\ activeLabel = NoLabel))

(***************************************************************************)
(* viewBoxForCountry applied to Bounds drawn from a grid that reaches      *)
(* beyond the canvas on every side and includes zero-area bounds.          *)
(***************************************************************************)
GridX == {k * 400 * Q - 120 * Q : k \in 0..GridN} \cup {MapW}
GridY == {k * 300 * Q - 80 * Q : k \in 0..GridN} \cup {MapH}
BoundsInputs ==
    {[minX |-> x1, minY |-> y1, maxX |-> x2, maxY |-> y2] :
        x1 \in GridX, x2 \in GridX, y1 \in GridY, y2 \in GridY}
OrderedBounds == {b \in BoundsInputs : b.minX <= b.maxX /\ b.minY <= b.maxY}

PureInit ==
    /\ InitStore(Constructed)
    /\ selectedCountry = "all"
    /\ hoveredCountry = NoHover
    /\ countryBounds = NoBounds
    /\ mounted = TRUE
    /\ clicks = 0
    /\ calls = 0
    /\ earlyAll = FALSE
    /\ fromIdle = FALSE
    /\ twin = NoTwin
    /\ geoFeatures = <<>>
    /\ mapError = ""
    /\ loader = LoaderStart

progVars == <<selectedCountry, hoveredCountry, activeLabel, viewBox, countryBounds,
              viewBoxAnimationRef, viewBoxAnimationResolveRef, labelExitTimerRef,
              transitionRunRef, frames, timers, micro, animPromises, mounted,
              clicks, calls, earlyAll, fromIdle, twin, geoFeatures, mapError, loader>>

InitVB ==
    /\ PureInit
    /\ fnIn \in {[fn |-> "viewBoxForCountry", countryName |-> n, bounds |-> b] :
                    n \in {Indonesia, Myanmar}, b \in OrderedBounds}
    /\ fnOut = <<>>

ApplyViewBoxForCountry ==
    /\ fnOut = <<>>
    /\ fnOut' = <<viewBoxForCountry(fnIn.countryName, fnIn.bounds)>>
    /\ UNCHANGED fnIn
    /\ UNCHANGED progVars

NextVB == ApplyViewBoxForCountry

SpecVB == InitVB /\ [][NextVB]_vars

\* C9: for every country name and every Bounds with minX <= maxX and
\* minY <= maxY (zero-area and off-canvas bounds included), the ViewBox that
\* viewBoxForCountry returns satisfies 0 <= x, x + width <= 960, 0 <= y and
\* y + height <= 620.
C9_ViewBoxInsideCanvas ==
    fnOut # <<>> =>
        /\ 0 <= fnOut[1].x
        /\ fnOut[1].x + fnOut[1].width <= MapW
        /\ 0 <= fnOut[1].y
        /\ fnOut[1].y + fnOut[1].height <= MapH

\* A zero-area Bounds lying wholly outside the canvas has been mapped.
C9_Witness ==
    /\ fnOut # <<>>
    /\ fnIn.bounds.minX = fnIn.bounds.maxX
    /\ fnIn.bounds.minY = fnIn.bounds.maxY
    /\ fnIn.bounds.maxX < 0
    /\ fnIn.bounds.minY > MapH

(***************************************************************************)
(* animateViewBox on its own: calls with any of a few targets and either   *)
(* duration, at any moment between frame callbacks, and the unmount        *)
(* cleanup.  The promise of the n-th call is named n; nothing awaits it.   *)
(***************************************************************************)
NearFull == [FULL_VIEWBOX EXCEPT !.x = Q \div 200]
Targets ==
    {FULL_VIEWBOX, NearFull,
     viewBoxForCountry(Myanmar, LoadedBounds[Myanmar]),
     viewBoxForCountry(Thailand, LoadedBounds[Thailand])}
Durations == {ZOOM_ANIMATION_MS, RESET_ANIMATION_MS}

InitAnim ==
    /\ PureInit
    /\ fnIn = <<>>
    /\ fnOut = <<>>

Call(target, durationMs) ==
    /\ mounted
    /\ calls < MaxCalls
    /\ \E st \in {animateViewBox(Store, target, durationMs, calls + 1, "none")} :
          Commit(st)
    /\ calls' = calls + 1
    /\ twin' = IF twin.s = "first" /\ twin.target = target
               THEN [twin EXCEPT !.s = "second", !.p2 = calls + 1]
               ELSE IF viewBoxAnimationRef = 0
                    THEN [s |-> "first", target |-> target, p1 |-> calls + 1, p2 |-> 0]
                    ELSE NoTwin
    /\ UNCHANGED uiVars
    /\ UNCHANGED <<clicks, earlyAll, fromIdle>>
    /\ UNCHANGED fnVars
    /\ UNCHANGED loadVars

Unmount ==
    /\ mounted
    /\ mounted' = FALSE
    /\ \E st \in {unmountCleanup(Store)} : Commit(st)
    /\ twin' = NoTwin
    /\ UNCHANGED <<selectedCountry, hoveredCountry, countryBounds>>
    /\ UNCHANGED <<clicks, calls, earlyAll, fromIdle>>
    /\ UNCHANGED fnVars
    /\ UNCHANGED loadVars

RunFrame == \E i \in 1..NumSamples : FrameStep(i)

NextAnim ==
    \/ \E target \in Targets, durationMs \in Durations : Call(target, durationMs)
    \/ RunFrame
    \/ Unmount

SpecAnim == InitAnim /\ [][NextAnim]_vars

(***************************************************************************)
(* The host runs a pending frame callback.                                 *)
(***************************************************************************)
FairAnim ==
    /\ InitAnim
    /\ [][NextAnim]_vars
    /\ WF_vars(RunFrame)

Pending(p) == \E r \in animPromises : r.p = p

\* C6: from an idle viewport, two calls of animateViewBox in immediate
\* succession with one target (no frame callback between them, no later call,
\* the component still mounted): the first call's promise is resolved by the
\* time the second call returns, and once no frame callback is pending the
\* viewBox is exactly the target, no animation is in flight and both promises
\* are resolved.
C6_TwinCallsEndAtTarget ==
    twin.s = "second" =>
        /\ ~Pending(twin.p1)
        /\ frames = <<>> =>
              /\ viewBox = twin.target
              /\ viewBoxAnimationRef = 0
              /\ ~Pending(twin.p2)

\* Two calls with a target away from the idle viewBox have run to the end.
C6_Witness ==
    /\ twin.s = "second"
    /\ frames = <<>>
    /\ twin.target \notin {FULL_VIEWBOX, NearFull}
    /\ viewBox = twin.target
    /\ calls = 2

\* C7: a call of animateViewBox whose target is not within epsilon of the
\* current viewBox, made while an animation is in flight, cancels the pending
\* frame callback and resolves the superseded promise within the call; the
\* only frame callback left is the new animation's first, which starts from
\* the viewBox current at the call; and in every state each pending frame
\* callback belongs to the animation whose resolver is held.
C7_SupersedeCancelsAndResolves ==
    /\ [][\A target \in Targets, durationMs \in Durations :
            (/\ Call(target, durationMs)
             /\ viewBoxAnimationRef # 0
             /\ ~boxesAlmostEqual(viewBox, target)) =>
                /\ \A r \in animPromises' : r.p # viewBoxAnimationResolveRef
                /\ viewBox' = viewBox
                /\ Len(frames') = 1
                /\ frames'[1].resolve = calls + 1
                /\ frames'[1].from = viewBox
                /\ frames'[1].target = target
                /\ frames'[1].seen = 0
                /\ viewBoxAnimationRef' = frames'[1].id
                /\ viewBoxAnimationResolveRef' = calls + 1]_vars
    /\ [](\A i \in 1..Len(frames) :
            /\ frames[i].resolve = viewBoxAnimationResolveRef
            /\ frames[i].id = viewBoxAnimationRef)

\* A second animation has started from a viewBox the first left mid-flight.
C7_Witness ==
    /\ calls >= 2
    /\ frames # <<>>
    /\ frames[1].seen = 0
    /\ frames[1].from \notin Targets
    /\ ~Pending(frames[1].resolve - 1)

\* C8: every promise returned by animateViewBox is eventually resolved when
\* the host keeps running pending frame callbacks: whenever promises are
\* pending a state follows in which none is, and a promise once resolved is
\* never pending again (a step adds only the promise of the call it makes).
\* Until it is resolved a promise is the one whose resolver is held, and a
\* frame callback of its animation is pending.
C8_EveryPromiseResolved ==
    /\ (animPromises # {}) ~> (animPromises = {})
    /\ [][\A r \in animPromises' \ animPromises : r.p = calls + 1 /\ calls' = r.p]_vars
    /\ [](\A r \in animPromises :
            /\ r.p = viewBoxAnimationResolveRef
            /\ frames # <<>>)

\* Promises have been resolved by supersession and by the unmount cleanup.
C8_Witness ==
    /\ calls >= 2
    /\ ~mounted
    /\ animPromises = {}
    /\ viewBox \notin Targets

(***************************************************************************)
(* clampLat and mercatorProject, App.tsx 544-552.  x is the longitude in   *)
(* thousandths of a radian; y = ln(tan(pi/4 + lat/2)) is tabulated, in     *)
(* thousandths, at the latitudes the inputs use (it is odd in lat).        *)
(***************************************************************************)
clampLat(latDeg) == Max2(0 - 85, Min2(85, latDeg))

LogTan ==
    (0 :> 0) @@ (15 :> 264) @@ (20 :> 356) @@ (21 :> 375) @@ (25 :> 450)
    @@ (85 :> 3131)

mercatorProject(coord) ==
    LET lat == clampLat(coord[2])
    IN  <<IF IsFinite(coord[1]) THEN (coord[1] * 31416) \div 1800 ELSE coord[1],
          IF lat < 0 THEN 0 - LogTan[0 - lat] ELSE LogTan[lat]>>

(***************************************************************************)
(* isCoordinate, App.tsx 554-561.                                          *)
(***************************************************************************)
isCoordinate(value) ==
    /\ IsArray(value)
    /\ Len(value.v) >= 2
    /\ value.v[1].t = "number"
    /\ value.v[2].t = "number"

(***************************************************************************)
(* geometryToPolygons, App.tsx 563-585: the array the loops iterate, as a  *)
(* sequence of JavaScript values (the elements are not inspected).         *)
(***************************************************************************)
geometryToPolygons(geometry) ==
    IF geometry = Null \/ geometry.v.coordinates = Null THEN <<>>
    ELSE IF geometry.v.type = "Polygon"
         THEN IF ~IsArray(geometry.v.coordinates) THEN <<>>
              ELSE <<geometry.v.coordinates>>
    ELSE IF geometry.v.type = "MultiPolygon"
         THEN IF ~IsArray(geometry.v.coordinates) THEN <<>>
              ELSE geometry.v.coordinates.v
    ELSE <<>>

(***************************************************************************)
(* collectProjectedBounds, App.tsx 587-626.  The four loops fold the       *)
(* accumulator acc; for..of over a value that is neither an array nor a    *)
(* string raises a TypeError, which ends the function.                     *)
(***************************************************************************)
Sentinel ==
    [minX |-> PosInf, minY |-> PosInf, maxX |-> NegInf, maxY |-> NegInf,
     raised |-> FALSE]

extend(acc, point) ==
    Then(mercatorProject(<<point.v[1].v, point.v[2].v>>),
         LAMBDA xy : [acc EXCEPT !.minX = IF xy[1] < @ THEN xy[1] ELSE @,
                                 !.minY = IF xy[2] < @ THEN xy[2] ELSE @,
                                 !.maxX = IF xy[1] > @ THEN xy[1] ELSE @,
                                 !.maxY = IF xy[2] > @ THEN xy[2] ELSE @])

RECURSIVE overPoints(_, _, _)
overPoints(ring, k, acc) ==
    IF k > Len(ring)
    THEN acc
    ELSE Then(IF isCoordinate(ring[k]) THEN extend(acc, ring[k]) ELSE acc,
              LAMBDA next : overPoints(ring, k + 1, next))

RECURSIVE overRings(_, _, _)
overRings(polygon, k, acc) ==
    IF k > Len(polygon)
    THEN acc
    ELSE Then(IF IsArray(polygon[k]) THEN overPoints(polygon[k].v, 1, acc)
              ELSE acc,
              LAMBDA next : overRings(polygon, k + 1, next))

RECURSIVE overPolygons(_, _, _)
overPolygons(polygons, k, acc) ==
    IF k > Len(polygons) \/ acc.raised
    THEN acc
    ELSE Then(IF polygons[k].t \in {"array", "string"}
              THEN overRings(polygons[k].v, 1, acc)
              ELSE [acc EXCEPT !.raised = TRUE],
              LAMBDA next : overPolygons(polygons, k + 1, next))

RECURSIVE overFeatures(_, _, _)
overFeatures(features, k, acc) ==
    IF k > Len(features) \/ acc.raised
    THEN acc
    ELSE Then(Then(geometryToPolygons(features[k].geometry),
                   LAMBDA polygons : overPolygons(polygons, 1, acc)),
              LAMBDA next : overFeatures(features, k + 1, next))

boundsOrFallback(acc) ==
    LET leftTop == mercatorProject(<<0 - 180, 85>>)
        rightBottom == mercatorProject(<<180, 0 - 85>>)
        found == [minX |-> acc.minX, minY |-> acc.minY,
                  maxX |-> acc.maxX, maxY |-> acc.maxY]
    IN  IF acc.raised
        THEN [outcome |-> "TypeError", bounds |-> found]
        ELSE IF ~IsFinite(acc.minX) \/ ~IsFinite(acc.minY)
                \/ ~IsFinite(acc.maxX) \/ ~IsFinite(acc.maxY)
        THEN [outcome |-> "returned",
              bounds |-> [minX |-> leftTop[1], minY |-> rightBottom[2],
                          maxX |-> rightBottom[1], maxY |-> leftTop[2]]]
        ELSE [outcome |-> "returned", bounds |-> found]

collectProjectedBounds(features) ==
    Then(overFeatures(features, 1, Sentinel), boundsOrFallback)

(***************************************************************************)
(* Feature lists: up to MaxFeatures features, each with one of a few       *)
(* geometries, well formed and malformed.                                  *)
(***************************************************************************)
Geometries ==
    {Null,
     Geometry("Polygon", Null),
     Geometry("Polygon", Num(5)),
     Geometry("Point", Arr(<<Num(100), Num(15)>>)),
     Geometry("Polygon", Arr(<<Arr(<<Point(95, 25), Point(99, 20), Point(95, 25)>>)>>)),
     Geometry("Polygon", Arr(<<Num(7), Arr(<<Arr(<<Num(95)>>), Str, Null>>)>>)),
     Geometry("Polygon", Arr(<<Arr(<<Point(PosInf, 15), Point(100, 15)>>)>>)),
     Geometry("MultiPolygon",
              Arr(<<Arr(<<Arr(<<Point(0 - 180, 0 - 90), Point(99, PosInf)>>)>>),
                    Arr(<<Arr(<<Point(100, 15), Str>>)>>)>>)),
     Geometry("MultiPolygon", Arr(<<Str, Arr(<<Null>>)>>)),
     Geometry("MultiPolygon", Arr(<<Null>>)),
     Geometry("MultiPolygon", Arr(<<Num(100), Num(15)>>))}

RECURSIVE FeatureLists(_)
FeatureLists(n) ==
    IF n = 0 THEN {<<>>}
    ELSE FeatureLists(n - 1)
         \cup {Append(fs, [geometry |-> g]) : fs \in FeatureLists(n - 1), g \in Geometries}

InitCB ==
    /\ PureInit
    /\ fnIn \in {[fn |-> "collectProjectedBounds", features |-> fs] :
                    fs \in FeatureLists(MaxFeatures)}
    /\ fnOut = <<>>

ApplyCollectProjectedBounds ==
    /\ fnOut = <<>>
    /\ fnOut' = <<collectProjectedBounds(fnIn.features)>>
    /\ UNCHANGED fnIn
    /\ UNCHANGED progVars

NextCB == ApplyCollectProjectedBounds

SpecCB == InitCB /\ [][NextCB]_vars

(***************************************************************************)
(* The valid coordinate points of a feature list: the elements, two        *)
(* numbers each, of the ring arrays of its Polygon and MultiPolygon        *)
(* coordinates.                                                            *)
(***************************************************************************)
ValidPoints(features) ==
    {pt \in UNION {UNION {UNION {{ring.v[n] : n \in 1..Len(ring.v)} :
                                    ring \in {pg.v[m] : m \in {j \in 1..Len(pg.v) : IsArray(pg.v[j])}}} :
                             pg \in {pgs[l] : l \in {j \in 1..Len(pgs) : IsArray(pgs[j])}}} :
                      pgs \in {geometryToPolygons(features[k].geometry) : k \in 1..Len(features)}} :
        isCoordinate(pt)}

\* C10: collectProjectedBounds returns, and what it returns is four finite
\* values with minX <= maxX and minY <= maxY; when the feature list is empty
\* or holds no valid coordinate point the result is the projection of
\* longitude -180..180 and latitude -85..85.
C10_FallbackAndFinite ==
    fnOut # <<>> =>
        /\ fnOut[1].outcome = "returned"
        /\ IsFinite(fnOut[1].bounds.minX) /\ IsFinite(fnOut[1].bounds.minY)
        /\ IsFinite(fnOut[1].bounds.maxX) /\ IsFinite(fnOut[1].bounds.maxY)
        /\ fnOut[1].bounds.minX <= fnOut[1].bounds.maxX
        /\ fnOut[1].bounds.minY <= fnOut[1].bounds.maxY
        /\ ValidPoints(fnIn.features) = {} =>
              /\ fnOut[1].bounds.minX = mercatorProject(<<0 - 180, 85>>)[1]
              /\ fnOut[1].bounds.maxX = mercatorProject(<<180, 85>>)[1]
              /\ fnOut[1].bounds.minY = mercatorProject(<<180, 0 - 85>>)[2]
              /\ fnOut[1].bounds.maxY = mercatorProject(<<180, 85>>)[2]

\* collectProjectedBounds has been applied to a list whose only geometry is a
\* MultiPolygon with a null element.
C10_Witness ==
    /\ fnOut # <<>>
    /\ Len(fnIn.features) = 1
    /\ fnIn.features[1].geometry = Geometry("MultiPolygon", Arr(<<Null>>))

\* C3: from the idle full view with the map loaded, selecting a member and
\* selecting nothing further leads to the viewBox being that member's
\* viewBox, which differs from the full canvas, with the label visible; and
\* on that way the label is shown only once the zoom has completed.
C3_SelectFromIdleZoomsThenShowsLabel ==
    /\ \A c \in {Myanmar, Thailand} :
          (fromIdle /\ selectedCountry = c) ~>
              \/ ~fromIdle
              \/ /\ viewBox = viewBoxForCountry(c, countryBounds[c])
                 /\ viewBox # FULL_VIEWBOX
                 /\ viewBoxAnimationRef = 0
                 /\ activeLabel = [countryName |-> c, phase |-> "visible"]
    /\ [](fromIdle /\ activeLabel # NoLabel =>
            /\ activeLabel.countryName = selectedCountry
            /\ viewBoxAnimationRef = 0
            /\ viewBox = viewBoxForCountry(selectedCountry, countryBounds[selectedCountry])
            /\ viewBox # FULL_VIEWBOX)

C3_Witness ==
    /\ fromIdle
    /\ selectedCountry = Myanmar
    /\ activeLabel = [countryName |-> Myanmar, phase |-> "visible"]
    /\ viewBox = viewBoxForCountry(Myanmar, countryBounds[Myanmar])

\* C5: activating a member shape c by click, Enter or Space selects "all"
\* when c was the selection and c otherwise, and clears hoveredCountry.
C5_ActivationToggles ==
    [][\A c \in {Myanmar, Thailand} :
          (Click(c) \/ KeyDown(c, "Enter") \/ KeyDown(c, " ")) =>
              /\ selectedCountry' = IF selectedCountry = c THEN "all" ELSE c
              /\ hoveredCountry' = NoHover]_vars

\* The same member was activated twice and the selection is "all" again.
C5_Witness ==
    /\ clicks = 2
    /\ selectedCountry = "all"
    /\ hoveredCountry = NoHover
(***************************************************************************)
(* mergeBounds, App.tsx 716-723, applied to three Bounds both ways round.  *)
(***************************************************************************)
MergeKeepsBase(base, next) == base

mergeBounds(base, next) ==
    [minX |-> Min2(base.minX, next.minX),
     minY |-> Min2(base.minY, next.minY),
     maxX |-> Max2(base.maxX, next.maxX),
     maxY |-> Max2(base.maxY, next.maxY)]

MergeX == {k * 400 * Q - 120 * Q : k \in 1..MergeN}
MergeY == {k * 300 * Q - 80 * Q : k \in 1..MergeN}
MergeInputs ==
    {[minX |-> x1, minY |-> y1, maxX |-> x2, maxY |-> y2] :
        x1 \in MergeX, x2 \in MergeX, y1 \in MergeY, y2 \in MergeY}
MergeBoundsSet == {b \in MergeInputs : b.minX <= b.maxX /\ b.minY <= b.maxY}

InitMB ==
    /\ PureInit
    /\ fnIn \in {[fn |-> "mergeBounds", a |-> a, b |-> b, c |-> c] :
                    a \in MergeBoundsSet, b \in MergeBoundsSet, c \in MergeBoundsSet}
    /\ fnOut = <<>>

ApplyMergeBounds ==
    /\ fnOut = <<>>
    /\ fnOut' = <<mergeBounds(mergeBounds(fnIn.a, fnIn.b), fnIn.c),
                  mergeBounds(fnIn.a, mergeBounds(fnIn.b, fnIn.c)),
                  mergeBounds(fnIn.a, fnIn.b)>>
    /\ UNCHANGED fnIn
    /\ UNCHANGED progVars

NextMB == ApplyMergeBounds

SpecMB == InitMB /\ [][NextMB]_vars

Contains(outer, inner) ==
    /\ outer.minX <= inner.minX
    /\ outer.minY <= inner.minY
    /\ outer.maxX >= inner.maxX
    /\ outer.maxY >= inner.maxY

\* C11: for any three Bounds a, b, c, mergeBounds(mergeBounds(a,b),c) equals
\* mergeBounds(a,mergeBounds(b,c)) in every field, and mergeBounds(a,b)
\* contains a and b: its min fields are <= and its max fields >= theirs.
C11_MergeAssociativeUnion ==
    fnOut # <<>> =>
        /\ fnOut[1] = fnOut[2]
        /\ Contains(fnOut[3], fnIn.a)
        /\ Contains(fnOut[3], fnIn.b)
        /\ Contains(fnOut[1], fnIn.a)
        /\ Contains(fnOut[1], fnIn.b)
        /\ Contains(fnOut[1], fnIn.c)

\* Three Bounds none of which contains another have been merged.
C11_Witness ==
    /\ fnOut # <<>>
    /\ ~Contains(fnIn.a, fnIn.b) /\ ~Contains(fnIn.b, fnIn.a)
    /\ ~Contains(fnIn.b, fnIn.c) /\ ~Contains(fnIn.c, fnIn.b)
    /\ ~Contains(fnIn.a, fnIn.c) /\ ~Contains(fnIn.c, fnIn.a)
    /\ fnOut[1] \notin {fnIn.a, fnIn.b, fnIn.c}
(***************************************************************************)
(* ISO3_TO_JA, App.tsx 130-141.                                            *)
(***************************************************************************)
ISO3_TO_JA ==
    ("BRN" :> "ブルネイ") @@ ("MMR" :> Myanmar) @@ ("KHM" :> "カンボジア")
    @@ ("IDN" :> Indonesia) @@ ("LAO" :> "ラオス") @@ ("MYS" :> "マレーシア")
    @@ ("PHL" :> "フィリピン") @@ ("SGP" :> "シンガポール") @@ ("THA" :> Thailand)
    @@ ("VNM" :> "ベトナム")

(***************************************************************************)
(* expandBounds and createProjector, App.tsx 628-668.  The projector is    *)
(* the record of what its closure captures; scale is in thousandths of a   *)
(* canvas unit per radian.  collectProjectedBounds may raise, and then so  *)
(* does createProjector.                                                   *)
(***************************************************************************)
OrOne(d) == IF d = 0 THEN Q ELSE d

expandBounds(bounds, factor) ==
    LET dx == OrOne(bounds.maxX - bounds.minX)
        dy == OrOne(bounds.maxY - bounds.minY)
        cx == (bounds.minX + bounds.maxX) \div 2
        cy == (bounds.minY + bounds.maxY) \div 2
        halfW == FMul(dx, factor) \div 2
        halfH == FMul(dy, factor) \div 2
    IN  [minX |-> cx - halfW, minY |-> cy - halfH,
         maxX |-> cx + halfW, maxY |-> cy + halfH]

projectorFor(features, collected, focusPadding) ==
    LET baseBounds == collected.bounds
        bounds == IF focusPadding > Q THEN expandBounds(baseBounds, focusPadding)
                  ELSE baseBounds
        dx == OrOne(bounds.maxX - bounds.minX)
        dy == OrOne(bounds.maxY - bounds.minY)
        innerWidth == (MAP_WIDTH - MAP_PADDING * 2) * Q
        innerHeight == (MAP_HEIGHT - MAP_PADDING * 2) * Q
        scale == Min2(FDiv(innerWidth, dx), FDiv(innerHeight, dy))
        usedWidth == FMul(dx, scale)
        usedHeight == FMul(dy, scale)
    IN  IF collected.outcome # "returned"
        THEN [outcome |-> collected.outcome, identity |-> FALSE, minX |-> 0,
              maxY |-> 0, scale |-> 0, offsetX |-> 0, offsetY |-> 0]
        ELSE [outcome |-> "returned",
              identity |-> features = <<>>,
              minX |-> bounds.minX,
              maxY |-> bounds.maxY,
              scale |-> scale,
              offsetX |-> (MapW - usedWidth) \div 2,
              offsetY |-> (MapH - usedHeight) \div 2]

createProjector(features, focusFeatures, focusPadding) ==
    Then(collectProjectedBounds(focusFeatures),
         LAMBDA collected : projectorFor(features, collected, focusPadding))

project(pr, coord) ==
    IF pr.identity THEN coord
    ELSE Then(mercatorProject(coord),
              LAMBDA xy : <<IF IsFinite(xy[1])
                            THEN FMul(xy[1] - pr.minX, pr.scale) + pr.offsetX
                            ELSE xy[1],
                            FMul(pr.maxY - xy[2], pr.scale) + pr.offsetY>>)

(***************************************************************************)
(* fmt, App.tsx 670-672: rounding to two decimals, a hundredth being ten   *)
(* model units.                                                            *)
(***************************************************************************)
fmt(num) ==
    IF ~IsFinite(num) THEN num
    ELSE IF num >= 0 THEN ((num + 5) \div 10) * 10
    ELSE 0 - (((0 - num) + 5) \div 10) * 10

(***************************************************************************)
(* polygonToPathData, App.tsx 674-714.  d is the sequence of the commands  *)
(* of the path string.  for..of over a polygon that is neither an array    *)
(* nor a string raises a TypeError.                                        *)
(***************************************************************************)
NoExtent == [minX |-> 0, minY |-> 0, maxX |-> 0, maxY |-> 0]
NoPath == [d |-> <<>>, minX |-> PosInf, minY |-> PosInf, maxX |-> NegInf,
           maxY |-> NegInf, hasPoint |-> FALSE]

pathPoint(acc, point, i, pr) ==
    Then(project(pr, <<point.v[1].v, point.v[2].v>>),
         LAMBDA xy :
            [acc EXCEPT !.minX = IF xy[1] < @ THEN xy[1] ELSE @,
                        !.minY = IF xy[2] < @ THEN xy[2] ELSE @,
                        !.maxX = IF xy[1] > @ THEN xy[1] ELSE @,
                        !.maxY = IF xy[2] > @ THEN xy[2] ELSE @,
                        !.d = Append(@, [op |-> IF i = 0 THEN "M" ELSE "L",
                                         x |-> fmt(xy[1]), y |-> fmt(xy[2])]),
                        !.hasPoint = TRUE])

RECURSIVE pathPoints(_, _, _, _)
pathPoints(ring, k, acc, pr) ==
    IF k > Len(ring)
    THEN acc
    ELSE Then(IF isCoordinate(ring[k]) THEN pathPoint(acc, ring[k], k - 1, pr)
              ELSE acc,
              LAMBDA next : pathPoints(ring, k + 1, next, pr))

pathRing(acc, ring, pr) ==
    IF ~IsArray(ring) \/ Len(ring.v) < 2
    THEN acc
    ELSE Then(pathPoints(ring.v, 1, [acc EXCEPT !.hasPoint = FALSE], pr),
              LAMBDA done :
                 IF done.hasPoint
                 THEN [done EXCEPT !.d = Append(@, [op |-> "Z", x |-> 0, y |-> 0])]
                 ELSE done)

RECURSIVE pathRings(_, _, _, _)
pathRings(polygon, k, acc, pr) ==
    IF k > Len(polygon)
    THEN acc
    ELSE Then(pathRing(acc, polygon[k], pr),
              LAMBDA next : pathRings(polygon, k + 1, next, pr))

polygonToPathData(polygon, pr) ==
    IF polygon.t \notin {"array", "string"}
    THEN [outcome |-> "TypeError", d |-> <<>>, bounds |-> NoExtent]
    ELSE Then(pathRings(polygon.v, 1, NoPath, pr),
              LAMBDA acc :
                 IF \/ acc.d = <<>>
                    \/ ~IsFinite(acc.minX) \/ ~IsFinite(acc.minY)
                    \/ ~IsFinite(acc.maxX) \/ ~IsFinite(acc.maxY)
                 THEN [outcome |-> "null", d |-> <<>>, bounds |-> NoExtent]
                 ELSE [outcome |-> "data", d |-> acc.d,
                       bounds |-> [minX |-> acc.minX, minY |-> acc.minY,
                                   maxX |-> acc.maxX, maxY |-> acc.maxY]])

(***************************************************************************)
(* buildMapPaths, App.tsx 725-769.  A feature is [iso3, geometry], iso3    *)
(* "absent" when properties or iso3 is missing; featureIndex and           *)
(* polygonIndex count from 0 as in the code.  The iso3 of a path is the    *)
(* feature's, <<iso3>>, or the made-up `F-${featureIndex}`, <<"F-", n>>.   *)
(***************************************************************************)
NoIso3 == "absent"
NoCountry == "null"

SelectAsean(features) ==
    LET isAsean(f) == f.iso3 # NoIso3 /\ f.iso3 \in DOMAIN ISO3_TO_JA
    IN  SelectSeq(features, isAsean)

AddPathOverwrites(acc, feature, featureIndex, polygonIndex, pathData) ==
    LET iso3 == IF feature.iso3 # NoIso3 THEN <<feature.iso3>>
                ELSE <<"F-", featureIndex>>
        countryName == IF Len(iso3) = 1 /\ iso3[1] \in DOMAIN ISO3_TO_JA
                       THEN ISO3_TO_JA[iso3[1]]
                       ELSE NoCountry
        path == [key |-> <<iso3, featureIndex, polygonIndex>>,
                 d |-> pathData.d,
                 iso3 |-> iso3,
                 countryName |-> countryName,
                 isAsean |-> countryName # NoCountry,
                 bounds |-> pathData.bounds]
    IN  [acc EXCEPT
            !.paths = Append(@, path),
            !.countryBounds =
                IF countryName = NoCountry THEN @
                ELSE IF countryName \in DOMAIN @
                     THEN [@ EXCEPT ![countryName] = pathData.bounds]
                     ELSE @ @@ (countryName :> pathData.bounds)]

addPath(acc, feature, featureIndex, polygonIndex, pathData) ==
    LET iso3 == IF feature.iso3 # NoIso3 THEN <<feature.iso3>>
                ELSE <<"F-", featureIndex>>
        countryName == IF Len(iso3) = 1 /\ iso3[1] \in DOMAIN ISO3_TO_JA
                       THEN ISO3_TO_JA[iso3[1]]
                       ELSE NoCountry
        path == [key |-> <<iso3, featureIndex, polygonIndex>>,
                 d |-> pathData.d,
                 iso3 |-> iso3,
                 countryName |-> countryName,
                 isAsean |-> countryName # NoCountry,
                 bounds |-> pathData.bounds]
    IN  [acc EXCEPT
            !.paths = Append(@, path),
            !.countryBounds =
                IF countryName = NoCountry THEN @
                ELSE IF countryName \in DOMAIN @
                     THEN [@ EXCEPT ![countryName] = mergeBounds(@, pathData.bounds)]
                     ELSE @ @@ (countryName :> pathData.bounds)]

RECURSIVE eachPolygon(_, _, _, _, _, _)
eachPolygon(polygons, k, acc, feature, featureIndex, pr) ==
    IF k > Len(polygons) \/ acc.outcome # "returned"
    THEN acc
    ELSE Then(Then(polygonToPathData(polygons[k], pr),
                   LAMBDA pathData :
                      IF pathData.outcome = "TypeError"
                      THEN [acc EXCEPT !.outcome = "TypeError"]
                      ELSE IF pathData.outcome = "null" THEN acc
                      ELSE addPath(acc, feature, featureIndex, k - 1, pathData)),
              LAMBDA next : eachPolygon(polygons, k + 1, next, feature,
                                        featureIndex, pr))

RECURSIVE eachFeature(_, _, _, _)
eachFeature(features, k, acc, pr) ==
    IF k > Len(features) \/ acc.outcome # "returned"
    THEN acc
    ELSE Then(Then(geometryToPolygons(features[k].geometry),
                   LAMBDA polygons : eachPolygon(polygons, 1, acc, features[k],
                                                 k - 1, pr)),
              LAMBDA next : eachFeature(features, k + 1, next, pr))

buildMapPaths(features) ==
    LET start == [outcome |-> "returned", paths |-> <<>>, countryBounds |-> NoBounds]
    IN  Then(Then(Then(SelectAsean(features),
                       LAMBDA aseanFeatures :
                          IF aseanFeatures # <<>> THEN aseanFeatures ELSE features),
                  LAMBDA focusFeatures :
                     createProjector(features, focusFeatures, ASEAN_FOCUS_PADDING)),
             LAMBDA pr :
                IF pr.outcome # "returned"
                THEN [start EXCEPT !.outcome = pr.outcome]
                ELSE eachFeature(features, 1, start, pr))
(***************************************************************************)
(* Feature lists for buildMapPaths: the two member squares and the context *)
(* square of App.test.tsx 20-72, and geometries whose coordinates are      *)
(* missing, not an array, or an array without coordinate pairs.            *)
(***************************************************************************)
GoodGeometries ==
    {Geometry("Polygon", Square(95, 25, 99, 20)),
     Geometry("MultiPolygon", Arr(<<Square(99, 20, 100, 15), Square(100, 25, 99, 20)>>))}
BadGeometries ==
    {Geometry("Polygon", Null),
     Geometry("Polygon", Num(5)),
     Geometry("Polygon", Arr(<<Num(7), Arr(<<Arr(<<Num(95)>>), Str, Null>>)>>)),
     Geometry("MultiPolygon", Arr(<<Str, Arr(<<Null>>)>>)),
     Geometry("MultiPolygon", Arr(<<Null>>))}
MapFeatures ==
    {[iso3 |-> i, geometry |-> g] :
        i \in {"MMR", "THA", "CHN", NoIso3}, g \in GoodGeometries \cup BadGeometries}

RECURSIVE MapFeatureLists(_)
MapFeatureLists(n) ==
    IF n = 0 THEN {<<>>}
    ELSE MapFeatureLists(n - 1)
         \cup {Append(fs, f) : fs \in MapFeatureLists(n - 1), f \in MapFeatures}

Malformed(feature) ==
    feature.geometry # Null /\ ValidPoints(<<feature>>) = {}
MalformedAt(features) == {k \in 1..Len(features) : Malformed(features[k])}
WithoutGeometry(features, ks) ==
    [k \in 1..Len(features) |->
        IF k \in ks THEN [features[k] EXCEPT !.geometry = Null] ELSE features[k]]

InitBMP ==
    /\ PureInit
    /\ fnIn \in {[fn |-> "buildMapPaths", features |-> fs] :
                    fs \in MapFeatureLists(MaxFeatures)}
    /\ fnOut = <<>>

ApplyBuildMapPaths ==
    /\ fnOut = <<>>
    /\ fnOut' = <<buildMapPaths(fnIn.features),
                  buildMapPaths(WithoutGeometry(fnIn.features, MalformedAt(fnIn.features)))>>
    /\ UNCHANGED fnIn
    /\ UNCHANGED progVars

NextBMP == ApplyBuildMapPaths

SpecBMP == InitBMP /\ [][NextBMP]_vars

\* C12: for a feature list in which one feature's geometry.coordinates is
\* malformed (missing, not an array, or an array without arrays of coordinate
\* pairs), buildMapPaths returns without raising, no MapPath comes from that
\* feature, and the MapPaths and countryBounds are those of the same list
\* with the malformed feature's geometry taken away.
C12_MalformedFeatureIsInert ==
    (fnOut # <<>> /\ Cardinality(MalformedAt(fnIn.features)) = 1) =>
        /\ fnOut[1].outcome = "returned"
        /\ \A n \in 1..Len(fnOut[1].paths) :
              fnOut[1].paths[n].key[2] + 1 \notin MalformedAt(fnIn.features)
        /\ fnOut[1].paths = fnOut[2].paths
        /\ fnOut[1].countryBounds = fnOut[2].countryBounds

\* buildMapPaths has been applied to a member feature with a drawable
\* geometry followed by one whose MultiPolygon has a null element.
C12_Witness ==
    /\ fnOut # <<>>
    /\ Len(fnIn.features) = 2
    /\ fnIn.features[1] = [iso3 |-> "MMR", geometry |-> Geometry("Polygon", Square(95, 25, 99, 20))]
    /\ fnIn.features[2].geometry = Geometry("MultiPolygon", Arr(<<Null>>))
(***************************************************************************)
(* loadMapFeatures, App.tsx 812-831, and the map-load effect, 856-879.     *)
(* One step is one turn of the loop: the fetch of the next candidate path  *)
(* and the reading of its answer.  A response is what the host gives:      *)
(* fetch rejects, a response that is not OK, a body res.json() rejects, a  *)
(* null payload (reading .features of it raises inside the try), a payload *)
(* without features, with features that is no array, with an empty array,  *)
(* or with features.  loader.log keeps the candidates asked and what each  *)
(* answered.  LoadErrorMessage stands for the text of line 830.            *)
(***************************************************************************)
Candidates == <<"/data/asean_context_10m.geojson", "/data/asean_10m.geojson">>
LoadErrorMessage == "could not load the map data"

PayloadOf(path) ==
    IF path = Candidates[1] THEN TestFeatures ELSE SubSeq(TestFeatures, 2, 3)

FailureKinds ==
    {"rejects", "notOk", "jsonRejects", "nullPayload", "noFeatures",
     "featuresNotArray", "emptyFeatures"}
Responses(path) ==
    {[kind |-> k, features |-> <<>>] : k \in FailureKinds}
    \cup {[kind |-> "features", features |-> PayloadOf(path)]}

AbortOnFailure(l, response) ==
    [l EXCEPT !.log = Append(@, [path |-> Candidates[l.next], kind |-> response.kind]),
              !.state = IF response.kind = "features" THEN "returned" ELSE "raised"]

afterResponse(l, response) ==
    [l EXCEPT !.log = Append(@, [path |-> Candidates[l.next], kind |-> response.kind]),
              !.state = IF response.kind = "features" /\ response.features # <<>>
                        THEN "returned"
                        ELSE IF l.next < Len(Candidates) THEN "fetching"
                        ELSE "raised",
              !.next = IF response.kind = "features" /\ response.features # <<>>
                       THEN @
                       ELSE @ + 1]

(***************************************************************************)
(* The selection effect as React runs it after a render: when the          *)
(* selection has no bounds, the reset effect (App.tsx 900-904) selects     *)
(* "all" and the render it causes runs the selection effect once more, in  *)
(* the same task.                                                          *)
(***************************************************************************)
KeepSelection(sel, cb) == sel

SelectionAfterReset(sel, cb) ==
    IF sel # "all" /\ sel \notin DOMAIN cb THEN "all" ELSE sel

renderEffects(st, sel, cb) ==
    IF SelectionAfterReset(sel, cb) # sel
    THEN Then(selectionEffect(st, sel),
              LAMBDA s : selectionEffect(s, SelectionAfterReset(sel, cb)))
    ELSE selectionEffect(st, sel)

TryCandidate(response) ==
    /\ loader.state = "fetching"
    /\ loader' = afterResponse(loader, response)
    /\ IF ~mounted
       THEN UNCHANGED <<geoFeatures, mapError, countryBounds, selectedCountry,
                        activeLabel, viewBox, viewBoxAnimationRef,
                        viewBoxAnimationResolveRef, labelExitTimerRef,
                        transitionRunRef, frames, timers, micro, animPromises>>
       ELSE IF loader'.state = "returned"
       THEN /\ geoFeatures' = response.features
            /\ mapError' = ""
            /\ countryBounds' = buildMapPaths(response.features).countryBounds
            /\ selectedCountry' = SelectionAfterReset(selectedCountry, countryBounds')
            /\ \E st \in {renderEffects(Store, selectedCountry, countryBounds')} :
                  Commit(st)
       ELSE IF loader'.state = "raised"
       THEN /\ mapError' = LoadErrorMessage
            /\ UNCHANGED <<geoFeatures, countryBounds, selectedCountry,
                           activeLabel, viewBox, viewBoxAnimationRef,
                           viewBoxAnimationResolveRef, labelExitTimerRef,
                           transitionRunRef, frames, timers, micro, animPromises>>
       ELSE UNCHANGED <<geoFeatures, mapError, countryBounds, selectedCountry,
                        activeLabel, viewBox, viewBoxAnimationRef,
                        viewBoxAnimationResolveRef, labelExitTimerRef,
                        transitionRunRef, frames, timers, micro, animPromises>>
    /\ UNCHANGED <<hoveredCountry, mounted>>
    /\ UNCHANGED ghostVars
    /\ UNCHANGED fnVars

Answer ==
    /\ loader.state = "fetching"
    /\ \E response \in Responses(Candidates[loader.next]) : TryCandidate(response)

InitLoad == Init

NextLoad ==
    \/ Answer
    \/ Unmount

SpecLoad == InitLoad /\ [][NextLoad]_vars
Succeeded(entry) == entry.kind = "features"

\* C13: loadMapFeatures asks the two candidate paths strictly in order; a
\* candidate that is not OK, raises, or has no, empty or non-array features
\* is skipped and the next one is asked; it returns the features of the
\* first candidate that answers with a non-empty features array, and raises
\* only when both have failed.  While the component is mounted a return
\* leaves geoFeatures equal to those features and mapError empty, and the
\* raise leaves mapError non-empty and geoFeatures empty.
C13_FirstGoodCandidateWins ==
    /\ Len(loader.log) <= Len(Candidates)
    /\ \A k \in 1..Len(loader.log) :
          /\ loader.log[k].path = Candidates[k]
          /\ k < Len(loader.log) => ~Succeeded(loader.log[k])
    /\ loader.state = "fetching" =>
          /\ Len(loader.log) < Len(Candidates)
          /\ loader.next = Len(loader.log) + 1
          /\ \A k \in 1..Len(loader.log) : ~Succeeded(loader.log[k])
          /\ geoFeatures = <<>>
          /\ mapError = ""
    /\ loader.state = "returned" =>
          /\ loader.log # <<>>
          /\ Succeeded(loader.log[Len(loader.log)])
          /\ mounted =>
                /\ geoFeatures = PayloadOf(Candidates[Len(loader.log)])
                /\ geoFeatures # <<>>
                /\ mapError = ""
    /\ loader.state = "raised" =>
          /\ Len(loader.log) = Len(Candidates)
          /\ \A k \in 1..Len(loader.log) : ~Succeeded(loader.log[k])
          /\ geoFeatures = <<>>
          /\ mounted => mapError # ""

\* The first candidate's body could not be parsed and the second answered
\* with features, which are now the geoFeatures.
C13_Witness ==
    /\ mounted
    /\ loader.state = "returned"
    /\ Len(loader.log) = 2
    /\ loader.log[1].kind = "jsonRejects"
    /\ geoFeatures = PayloadOf(Candidates[2])
    /\ DOMAIN countryBounds = {Thailand}
(***************************************************************************)
(* onSelectCountry (App.tsx 1068-1071) takes any name.  SelectName calls    *)
(* it with a name that may have no bounds, before or after the map data    *)
(* arrived, and runs the effects of the render it causes (900-904,         *)
(* 1008-1044).                                                             *)
(***************************************************************************)
SelectableNames == {Myanmar, Thailand, Indonesia}

SelectName(c) ==
    /\ mounted
    /\ micro = <<>>
    /\ clicks < MaxClicks
    /\ \E r \in {onSelectCountry(selectedCountry, hoveredCountry, c)} :
          /\ selectedCountry' = SelectionAfterReset(r.selectedCountry, countryBounds)
          /\ hoveredCountry' = r.hoveredCountry
          /\ \E st \in {renderEffects(Store, r.selectedCountry, countryBounds)} :
                Commit(st)
    /\ clicks' = clicks + 1
    /\ fnIn' = <<c>>
    /\ UNCHANGED <<countryBounds, mounted, calls, earlyAll, fromIdle, twin, fnOut>>
    /\ UNCHANGED loadVars

NextSel ==
    \/ Answer
    \/ \E c \in SelectableNames : SelectName(c)
    \/ HostStep

SpecSel == Init /\ [][NextSel]_vars

\* C14: a selection that is not "all" and has no entry in countryBounds,
\* whether the map data has arrived or not, is reset to "all": whenever no
\* microtask, frame or timer is pending, the selection is "all" or a key of
\* countryBounds.
C14_SelectionHasBounds ==
    Quiescent => selectedCountry \in {"all"} \cup DOMAIN countryBounds

\* A name without bounds was selected before the map data arrived; the
\* runs of the selection effect have ended and the selection is "all".
C14_Witness ==
    /\ Quiescent
    /\ fnIn = <<Indonesia>>
    /\ loader.state = "fetching"
    /\ DOMAIN countryBounds = {}
    /\ transitionRunRef > Constructed.run
    /\ selectedCountry = "all"
\* C15: when the promise of an animateViewBox(target) call resolves and no
\* later call has been made, the viewBox is exactly target and no animation
\* is in flight: a call that snaps leaves the viewBox at its target with no
\* frame callback pending, the last frame of the most recent call's
\* animation leaves the viewBox at that call's target with no frame callback
\* pending, and no frame callback of an earlier call's animation runs after
\* a later call (the most recent call determines the final viewBox).
C15_LatestCallDeterminesViewBox ==
    [][/\ \A target \in Targets, durationMs \in Durations :
            (Call(target, durationMs) /\ boxesAlmostEqual(viewBox, target)) =>
                /\ viewBox' = target
                /\ viewBoxAnimationRef' = 0
                /\ frames' = <<>>
       /\ (RunFrame /\ \E r \in animPromises \ animPromises' : r.p = calls) =>
                /\ viewBox' = Head(frames).target
                /\ viewBoxAnimationRef' = 0
                /\ viewBoxAnimationResolveRef' = 0
                /\ frames' = <<>>
       /\ RunFrame => Head(frames).resolve = calls]_vars

\* The second call snapped while the first call's animation was in flight:
\* its promise is resolved, and the first call's frame callback is pending.
C15_Witness ==
    /\ mounted
    /\ calls = 2
    /\ viewBox \in Targets
    /\ frames # <<>>
    /\ Head(frames).resolve = 1
    /\ \A r \in animPromises : r.p = 1
(***************************************************************************)
(* Calls of animateViewBox with targets just inside and just at epsilon    *)
(* (0.01, App.tsx 803) of the idle viewBox in one field, and one far away. *)
(***************************************************************************)
SnapTargets ==
    {FULL_VIEWBOX,
     [FULL_VIEWBOX EXCEPT !.x = @ + 9],
     [FULL_VIEWBOX EXCEPT !.x = @ + 10],
     [FULL_VIEWBOX EXCEPT !.y = @ - 10],
     [FULL_VIEWBOX EXCEPT !.width = @ - 9],
     [FULL_VIEWBOX EXCEPT !.height = @ + 10],
     viewBoxForCountry(Thailand, LoadedBounds[Thailand])}

NextSnap ==
    \/ \E target \in SnapTargets : Call(target, ZOOM_ANIMATION_MS)
    \/ RunFrame

SpecSnap == InitAnim /\ [][NextSnap]_vars

FieldsWithin(a, b, d) ==
    /\ Abs(a.x - b.x) < d
    /\ Abs(a.y - b.y) < d
    /\ Abs(a.width - b.width) < d
    /\ Abs(a.height - b.height) < d

\* C16: a call of animateViewBox whose target differs from the current
\* viewBox by less than 0.01 in every field commits exactly target, resolves
\* its promise within the call and schedules no frame callback; a call whose
\* target differs by 0.01 or more in some field leaves the viewBox as it is,
\* keeps its promise pending and schedules the first frame callback of an
\* animation towards target.
C16_SnapOnlyWithinEpsilon ==
    [][\A target \in SnapTargets :
          Call(target, ZOOM_ANIMATION_MS) =>
              IF FieldsWithin(viewBox, target, Q \div 100)
              THEN /\ viewBox' = target
                   /\ \A r \in animPromises' : r.p # calls + 1
                   /\ frames' = frames
                   /\ viewBoxAnimationRef' = viewBoxAnimationRef
              ELSE /\ viewBox' = viewBox
                   /\ \E r \in animPromises' : r.p = calls + 1
                   /\ viewBoxAnimationResolveRef' = calls + 1
                   /\ Len(frames') = 1
                   /\ frames'[1].target = target
                   /\ frames'[1].from = viewBox
                   /\ frames'[1].seen = 0
                   /\ viewBoxAnimationRef' = frames'[1].id
                   /\ viewBoxAnimationRef' # 0]_vars

\* One call snapped to a target 0.009 away in a field and a later one
\* started an animation to a target 0.01 away from that.
C16_Witness ==
    /\ calls >= 2
    /\ frames # <<>>
    /\ Head(frames).seen = 0
    /\ FieldsWithin(Head(frames).from, FULL_VIEWBOX, Q \div 100)
    /\ Head(frames).from # FULL_VIEWBOX
    /\ FieldsWithin(Head(frames).from, Head(frames).target, 11)
\* C17: a frame callback of an animation that observes an elapsed time of
\* at least the duration (t = 1) commits exactly the animation's target,
\* leaves the frame handle and the resolver null, resolves the animation's
\* promise, which was pending until then and is the only one it resolves,
\* and schedules no frame callback.
C17_LastFrameCommitsTargetAndResolves ==
    [][\A i \in 1..NumSamples :
          (/\ FrameStep(i)
           /\ Elapsed(Head(frames).durationMs, i) >= Head(frames).durationMs) =>
              /\ viewBox' = Head(frames).target
              /\ viewBoxAnimationRef' = 0
              /\ viewBoxAnimationResolveRef' = 0
              /\ Pending(Head(frames).resolve)
              /\ animPromises' = {r \in animPromises : r.p # Head(frames).resolve}
              /\ frames' = Tail(frames)]_vars

\* An animation that was started from a viewBox another animation left
\* mid-flight has run its last frame.
C17_Witness ==
    /\ mounted
    /\ calls = 2
    /\ frames = <<>>
    /\ animPromises = {}
    /\ viewBoxAnimationRef = 0
    /\ viewBoxAnimationResolveRef = 0
    /\ viewBox \in Targets \ {FULL_VIEWBOX, NearFull}
FractionAt(durationMs, i) == Min2(Q, FDiv(Elapsed(durationMs, i), durationMs))

Between(v, a, b) == Min2(a, b) <= v /\ v <= Max2(a, b)

\* C18: for every frame callback of a viewBox animation and every frame
\* timestamp, one earlier than the recorded start time included, the elapsed
\* fraction t lies in [0,1], the eased value e = 1-(1-t)^3 lies in [0,1] and
\* does not decrease when t grows, and each of the four committed viewBox
\* fields lies between its from value and its target value.
C18_FramesStayBetweenFromAndTarget ==
    /\ [][\A i \in 1..NumSamples :
            FrameStep(i) =>
                \E t \in {FractionAt(Head(frames).durationMs, i)} :
                    /\ 0 <= t /\ t <= Q
                    /\ 0 <= easeOutCubic(t) /\ easeOutCubic(t) <= Q
                    /\ Between(viewBox'.x, Head(frames).from.x, Head(frames).target.x)
                    /\ Between(viewBox'.y, Head(frames).from.y, Head(frames).target.y)
                    /\ Between(viewBox'.width, Head(frames).from.width,
                               Head(frames).target.width)
                    /\ Between(viewBox'.height, Head(frames).from.height,
                               Head(frames).target.height)]_vars
    /\ [](\A durationMs \in Durations, i, j \in 1..NumSamples :
            FractionAt(durationMs, i) <= FractionAt(durationMs, j) =>
                easeOutCubic(FractionAt(durationMs, i))
                    <= easeOutCubic(FractionAt(durationMs, j)))

\* A frame callback has observed a timestamp earlier than the start time of
\* its animation and committed a viewBox.
C18_Witness ==
    /\ frames # <<>>
    /\ Head(frames).kind = "step"
    /\ Head(frames).seen = 1
    /\ Elapsed(Head(frames).durationMs, 1) < 0
    /\ viewBox # Head(frames).from
    /\ viewBoxAnimationRef = Head(frames).id
\* C19: in every reachable state, every intermediate animation frame
\* included and after any sequence of selections and supersessions, the
\* committed viewBox has a positive width and height and lies inside the
\* canvas: 0 <= x, x + width <= 960, 0 <= y, y + height <= 620.
C19_ViewBoxAlwaysInsideCanvas ==
    /\ viewBox.width > 0
    /\ viewBox.height > 0
    /\ 0 <= viewBox.x
    /\ viewBox.x + viewBox.width <= MAP_WIDTH * Q
    /\ 0 <= viewBox.y
    /\ viewBox.y + viewBox.height <= MAP_HEIGHT * Q

\* An animation that superseded another one mid-flight is itself between
\* two frames.
C19_Witness ==
    /\ frames # <<>>
    /\ Head(frames).kind = "step"
    /\ Head(frames).seen > 0
    /\ Head(frames).from \notin {FULL_VIEWBOX} \cup
          {viewBoxForCountry(c, countryBounds[c]) : c \in DOMAIN countryBounds}
    /\ viewBox # Head(frames).from
    /\ viewBox # Head(frames).target
    /\ selectedCountry # "all"
\* C20: viewBoxForCountry returns width = 960/s and height = 620/s for one
\* scale s with 1 <= s <= 10, the scale the code computes, so the viewBox is
\* never larger than the full view and never narrower than 96 units; for
\* Indonesia s >= 1.58; and the width and height used for fitting are never
\* below 5% of the canvas dimensions (48 and 31).
C20_ScaleWithinLimits ==
    fnOut # <<>> =>
        /\ \E s \in {zoomScale(fnIn.countryName, fnIn.bounds)} :
              /\ MIN_COUNTRY_SCALE <= s
              /\ s <= MAX_COUNTRY_SCALE
              /\ fnOut[1].width = FDiv(MapW, s)
              /\ fnOut[1].height = FDiv(MapH, s)
              /\ fnIn.countryName = Indonesia => s >= INDONESIA_MIN_SCALE
        /\ fnOut[1].width <= MapW
        /\ fnOut[1].height <= MapH
        /\ fnOut[1].width >= 96 * Q
        /\ fnOut[1].height >= 62 * Q
        /\ fitExtent(fnIn.bounds).width >= 48 * Q
        /\ fitExtent(fnIn.bounds).height >= 31 * Q
        /\ fitExtent(fnIn.bounds).width >= fnIn.bounds.maxX - fnIn.bounds.minX
        /\ fitExtent(fnIn.bounds).height >= fnIn.bounds.maxY - fnIn.bounds.minY

\* Indonesia with bounds that would fit at a scale below 1.58 has been
\* mapped at the scale 1.58.
C20_Witness ==
    /\ fnOut # <<>>
    /\ fnIn.countryName = Indonesia
    /\ fitScaleOf(Indonesia, fnIn.bounds) < INDONESIA_MIN_SCALE
    /\ fitScaleOf(Indonesia, fnIn.bounds) > MIN_COUNTRY_SCALE
    /\ fnOut[1].width = FDiv(MapW, INDONESIA_MIN_SCALE)
\* C21: a continuation that captured run id r (the frame callback that
\* flips entering to visible, the exit timer's callback, and the steps of
\* the orchestration after awaiting hide or animateViewBox) that resumes
\* when the run-id counter is no longer r changes neither activeLabel nor
\* the viewBox, and starts no animation, frame callback or timer.
C21_StaleContinuationIsInert ==
    [][/\ (FrameFlip /\ Head(frames).runId # transitionRunRef) =>
              /\ activeLabel' = activeLabel
              /\ frames' = Tail(frames)
              /\ UNCHANGED <<viewBox, viewBoxAnimationRef, viewBoxAnimationResolveRef,
                             labelExitTimerRef, timers, animPromises, micro>>
       /\ \A tm \in timers :
              (TimerFire(tm) /\ tm.runId # transitionRunRef) =>
                  /\ activeLabel' = activeLabel
                  /\ UNCHANGED <<viewBox, viewBoxAnimationRef,
                                 viewBoxAnimationResolveRef, labelExitTimerRef,
                                 frames, animPromises>>
       /\ (RunMicrotask /\ Head(micro).runId # transitionRunRef) =>
              /\ activeLabel' = activeLabel
              /\ micro' = Tail(micro)
              /\ UNCHANGED <<viewBox, viewBoxAnimationRef, viewBoxAnimationResolveRef,
                             labelExitTimerRef, frames, timers, animPromises>>
       /\ UNCHANGED transitionRunRef =>
              (activeLabel' # activeLabel =>
                  \/ FrameFlip /\ Head(frames).runId = transitionRunRef
                  \/ \E tm \in timers : TimerFire(tm) /\ tm.runId = transitionRunRef
                  \/ RunMicrotask /\ Head(micro).runId = transitionRunRef)]_vars

\* The flip of an older run is still pending while the label it was to make
\* visible is exiting for a newer run.
C21_Witness ==
    \E i \in 1..Len(frames) :
        /\ frames[i].kind = "flip"
        /\ frames[i].runId < transitionRunRef
        /\ activeLabel # NoLabel
        /\ activeLabel.countryName = frames[i].countryName
        /\ activeLabel.phase = "exiting"
PhaseEdges ==
    {<<"none", "entering">>, <<"entering", "visible">>,
     <<"visible", "exiting">>, <<"exiting", "none">>}

\* C22: the label's phase changes only along the edges none -> entering,
\* entering -> visible, visible -> exiting and exiting -> none, for any
\* sequence of selections.
C22_PhaseFollowsEdges ==
    [][activeLabel'.phase # activeLabel.phase =>
          <<activeLabel.phase, activeLabel'.phase>> \in PhaseEdges]_vars

\* "all" was selected while the label of the selected country was entering
\* or visible, and no label is active.
C22_Witness ==
    /\ selectedCountry = "all"
    /\ clicks >= 2
    /\ ~earlyAll
    /\ activeLabel = NoLabel
    /\ viewBoxAnimationRef # 0
\* C22, amended: the label's phase changes only along the edges
\* none -> entering, entering -> visible, visible -> exiting and
\* exiting -> none, and along two shortcuts: selecting "all" clears a label
\* that is entering or visible at once (-> none), and selecting another
\* country while the label is still entering starts its exit
\* (entering -> exiting).  A label never goes from exiting back to entering
\* or visible, and never appears in a phase other than entering.
C22_PhaseFollowsEdgesOrShortcuts ==
    [][activeLabel'.phase # activeLabel.phase =>
          \/ <<activeLabel.phase, activeLabel'.phase>> \in PhaseEdges
          \/ /\ activeLabel.phase \in {"entering", "visible"}
             /\ activeLabel'.phase = "none"
             /\ selectedCountry # "all"
             /\ selectedCountry' = "all"
          \/ /\ activeLabel.phase = "entering"
             /\ activeLabel'.phase = "exiting"
             /\ activeLabel'.countryName = activeLabel.countryName
             /\ selectedCountry' \notin {"all", selectedCountry}]_vars
HideResolved(q, runId) ==
    \E k \in 1..Len(q) : q[k].kind = "afterHide" /\ q[k].runId = runId

\* C23: hideEditorialLabel, called by the run a selection of a country
\* starts: when no label is active it resolves at once, changes no label,
\* viewBox or frame callback and starts no timer; when a label for L is
\* active it sets activeLabel to {L, exiting}, starts one exit timer of
\* 860 ms and does not resolve; the timer's callback, the run being current,
\* sets activeLabel to null, clears the timer reference and resolves; and
\* while the timer is pending the promise is not resolved.
C23_HideWaitsForExitTimer ==
    /\ [][\A c \in {Myanmar, Thailand} :
            (Activate(c) /\ selectedCountry' # "all") =>
                IF activeLabel = NoLabel
                THEN /\ activeLabel' = NoLabel
                     /\ timers' = {}
                     /\ labelExitTimerRef' = 0
                     /\ micro' = Append(micro, [kind |-> "afterHide",
                                                runId |-> transitionRunRef',
                                                sel |-> c])
                     /\ UNCHANGED <<viewBox, frames, animPromises,
                                    viewBoxAnimationRef, viewBoxAnimationResolveRef>>
                ELSE /\ activeLabel' = [countryName |-> activeLabel.countryName,
                                        phase |-> "exiting"]
                     /\ Cardinality(timers') = 1
                     /\ \A tm \in timers' :
                           /\ tm.delay = 860
                           /\ tm.runId = transitionRunRef'
                           /\ tm.id = labelExitTimerRef'
                           /\ tm.id # 0
                     /\ micro' = micro
                     /\ UNCHANGED <<viewBox, frames, animPromises,
                                    viewBoxAnimationRef, viewBoxAnimationResolveRef>>]_vars
    /\ [][\A tm \in timers :
            (TimerFire(tm) /\ tm.runId = transitionRunRef) =>
                /\ activeLabel' = NoLabel
                /\ labelExitTimerRef' = 0
                /\ timers' = timers \ {tm}
                /\ ~HideResolved(micro, tm.runId)
                /\ HideResolved(micro', tm.runId)]_vars
    /\ [](\A tm \in timers : ~HideResolved(micro, tm.runId))

\* The exit timer of the label of the country selected before has expired:
\* no label is active and the run's continuation is about to resume.
C23_Witness ==
    /\ activeLabel = NoLabel
    /\ labelExitTimerRef = 0
    /\ timers = {}
    /\ selectedCountry # "all"
    /\ HideResolved(micro, transitionRunRef)
    /\ \E c \in DOMAIN countryBounds \ {selectedCountry} :
          viewBox = viewBoxForCountry(c, countryBounds[c])
\* C24: a step that starts a new selection run cancels the label-exit timer
\* that was pending, and the timer's callback never runs afterwards (every
\* pending timer belongs to the current run); at most one label-exit timer
\* is pending at any time; and a run whose hide was cancelled never resumes
\* (no continuation awaiting hide belongs to an older run), so it makes no
\* further animateViewBox call or label update.
C24_NewRunCancelsExitTimer ==
    /\ [][transitionRunRef' # transitionRunRef =>
            /\ \A tm \in timers : tm \notin timers'
            /\ \A tm \in timers' : tm.runId = transitionRunRef']_vars
    /\ [](/\ Cardinality(timers) <= 1
          /\ \A tm \in timers :
                /\ tm.runId = transitionRunRef
                /\ tm.id = labelExitTimerRef
          /\ timers = {} => labelExitTimerRef = 0
          /\ \A k \in 1..Len(micro) :
                micro[k].kind = "afterHide" => micro[k].runId = transitionRunRef)

\* The country whose label was exiting has been selected again: the exit
\* timer of the run in between was cancelled and a new one is pending.
C24_Witness ==
    /\ activeLabel # NoLabel
    /\ activeLabel.phase = "exiting"
    /\ activeLabel.countryName = selectedCountry
    /\ Cardinality(timers) = 1
    /\ clicks >= 3
\* C25: showEditorialLabel(C, r), called by run r after its zoom, sets
\* activeLabel to {C, entering} at once and schedules one frame callback;
\* the callback sets the label to {C, visible} when the run-id counter is
\* still r and the active label names C, and leaves activeLabel as it is
\* otherwise.
C25_ShowEntersThenFlips ==
    /\ [][(/\ RunMicrotask
           /\ Head(micro).kind = "afterAnim"
           /\ Head(micro).runId = transitionRunRef) =>
              /\ activeLabel' = [countryName |-> Head(micro).sel, phase |-> "entering"]
              /\ Len(frames') = Len(frames) + 1
              /\ SubSeq(frames', 1, Len(frames)) = frames
              /\ frames'[Len(frames')].kind = "flip"
              /\ frames'[Len(frames')].runId = Head(micro).runId
              /\ frames'[Len(frames')].countryName = Head(micro).sel
              /\ \A i \in 1..Len(frames) : frames[i].id # frames'[Len(frames')].id
              /\ UNCHANGED <<viewBox, timers, transitionRunRef>>]_vars
    /\ [][FrameFlip =>
              /\ activeLabel' =
                    IF /\ Head(frames).runId = transitionRunRef
                       /\ activeLabel # NoLabel
                       /\ activeLabel.countryName = Head(frames).countryName
                    THEN [countryName |-> Head(frames).countryName, phase |-> "visible"]
                    ELSE activeLabel
              /\ frames' = Tail(frames)]_vars

\* The label of the second country selected has been flipped to visible.
C25_Witness ==
    /\ clicks >= 2
    /\ activeLabel = [countryName |-> selectedCountry, phase |-> "visible"]
    /\ \A i \in 1..Len(frames) : frames[i].kind # "flip"
    /\ micro = <<>>
\* C26: the run-id counter is monotonic: every start of the selection
\* orchestration (every change of the selected country, to and from "all"
\* included) increases it by exactly 1, before any other step of the run
\* (what the run leaves pending carries the new id); nothing but a start of
\* the orchestration (a change of the selection or of the country bounds)
\* modifies it; and it never decreases.
C26_RunIdMonotonic ==
    /\ [][/\ selectedCountry' # selectedCountry =>
                transitionRunRef' = transitionRunRef + 1
          /\ transitionRunRef' # transitionRunRef =>
                /\ transitionRunRef' = transitionRunRef + 1
                /\ \/ selectedCountry' # selectedCountry
                   \/ countryBounds' # countryBounds
                /\ \A tm \in timers' : tm.runId = transitionRunRef'
                /\ \A r \in animPromises' \ animPromises : r.p = transitionRunRef'
                /\ \A k \in 1..Len(micro') :
                      micro'[k].kind = "afterHide" =>
                          micro'[k].runId = transitionRunRef']_vars
    /\ [](transitionRunRef >= 1)

\* The map data has arrived and three selections have been made: five runs
\* have started.
C26_Witness ==
    /\ clicks = 3
    /\ DOMAIN countryBounds # {}
    /\ transitionRunRef = 5
    /\ selectedCountry # "all"
(***************************************************************************)
(* The selection effect on its own (App.tsx 1008-1044): RunEffectFor runs  *)
(* it for a selection, with or without an entry in countryBounds, and the  *)
(* host then runs what it left pending.  The render of the reset effect    *)
(* (900-904) is not part of this specification, so a run for a country     *)
(* without bounds is not superseded unless another selection is made.      *)
(***************************************************************************)
EffectSelections == {"all", Myanmar, Thailand, Indonesia}

RunEffectFor(sel) ==
    /\ mounted
    /\ micro = <<>>
    /\ clicks < MaxClicks
    /\ sel # selectedCountry
    /\ selectedCountry' = sel
    /\ hoveredCountry' = NoHover
    /\ \E st \in {selectionEffect(Store, sel)} : Commit(st)
    /\ clicks' = clicks + 1
    /\ fnIn' = <<sel>>
    /\ UNCHANGED <<countryBounds, mounted, calls, earlyAll, fromIdle, twin, fnOut>>
    /\ UNCHANGED loadVars

NextRun ==
    \/ Answer
    \/ \E sel \in EffectSelections : RunEffectFor(sel)
    \/ HostStep

SpecRun == Init /\ [][NextRun]_vars

\* C27: when a country other than "all" with no entry in countryBounds is
\* selected, the run, once the current label is hidden and unless it was
\* superseded, animates the viewBox to {0,0,960,620} (or snaps to it) and
\* stops: it leaves the label alone and nothing it leaves pending calls
\* showEditorialLabel, so no label is entering or visible for a country
\* without bounds.
C27_NoBoundsRunStopsAtFull ==
    /\ [][(/\ micro # <<>>
           /\ Head(micro).kind = "afterHide"
           /\ Head(micro).runId = transitionRunRef
           /\ Head(micro).sel \notin DOMAIN countryBounds
           /\ RunMicrotask)
          => /\ activeLabel' = activeLabel
             /\ \A k \in 1..Len(micro') :
                   \/ micro'[k].runId # transitionRunRef
                   \/ k < Len(micro) /\ micro'[k] = micro[k + 1]
             /\ \A r \in animPromises' :
                   r.p = transitionRunRef => r.then = "none"
             /\ IF boxesAlmostEqual(viewBox, FULL_VIEWBOX)
                THEN /\ viewBox' = FULL_VIEWBOX
                     /\ frames' = frames
                ELSE /\ viewBox' = viewBox
                     /\ viewBoxAnimationResolveRef' = transitionRunRef
                     /\ \E k \in 1..Len(frames') :
                           /\ frames'[k].kind = "step"
                           /\ frames'[k].id = viewBoxAnimationRef'
                           /\ frames'[k].target = FULL_VIEWBOX
                           /\ frames'[k].resolve = transitionRunRef]_vars
    /\ [](/\ activeLabel # NoLabel /\ activeLabel.phase \in {"entering", "visible"}
             => activeLabel.countryName \in DOMAIN countryBounds
          /\ \A k \in 1..Len(micro) :
                micro[k].kind = "afterAnim" => micro[k].sel \in DOMAIN countryBounds
          /\ \A r \in animPromises :
                r.then # "none" => r.then \in DOMAIN countryBounds)

\* The map is zoomed on a country, a country without bounds is selected, its
\* run has hidden the label and the animation back to the full viewBox is
\* under way.
C27_Witness ==
    /\ DOMAIN countryBounds # {}
    /\ selectedCountry # "all"
    /\ selectedCountry \notin DOMAIN countryBounds
    /\ activeLabel = NoLabel
    /\ micro = <<>>
    /\ viewBox # FULL_VIEWBOX
    /\ viewBoxAnimationResolveRef = transitionRunRef
    /\ \E k \in 1..Len(frames) :
          /\ frames[k].kind = "step"
          /\ frames[k].target = FULL_VIEWBOX
          /\ frames[k].resolve = transitionRunRef
          /\ frames[k].seen > 0
\* C28: once the run for the latest selection has started, a label that is
\* entering or visible names the selected country, so none is entering or
\* visible while the selection is "all"; a label naming another country is
\* exiting.
C28_ShownLabelNamesSelection ==
    activeLabel # NoLabel =>
        /\ activeLabel.phase \in {"entering", "visible"} =>
              /\ selectedCountry # "all"
              /\ activeLabel.countryName = selectedCountry
        /\ activeLabel.countryName # selectedCountry =>
              activeLabel.phase = "exiting"

\* Thailand is selected while the label of Myanmar, selected before, is
\* still on its way out.
C28_Witness ==
    /\ selectedCountry = Thailand
    /\ activeLabel # NoLabel
    /\ activeLabel.countryName = Myanmar
    /\ activeLabel.phase = "exiting"
    /\ transitionRunRef >= 4
\* The viewBox frame callbacks that are pending.
StepFrames == {k \in 1..Len(frames) : frames[k].kind = "step"}

\* C29: between handlers the in-flight animation state is consistent: the
\* frame handle (viewBoxAnimationRef) is set exactly when the pending
\* resolver (viewBoxAnimationResolveRef) is set, and at most one viewBox
\* frame callback is pending, the one the handle names, however many
\* animateViewBox calls interleave and also after unmount.
C29_AnimationStateConsistent ==
    /\ viewBoxAnimationRef # 0 <=> viewBoxAnimationResolveRef # 0
    /\ Cardinality(StepFrames) <= 1
    /\ \A k \in StepFrames : frames[k].id = viewBoxAnimationRef
    /\ viewBoxAnimationRef # 0 => StepFrames # {}

\* A third animateViewBox call has replaced an animation that had already
\* run a frame: one callback is pending and it belongs to the third call.
C29_Witness ==
    /\ calls = 3
    /\ viewBoxAnimationRef # 0
    /\ viewBoxAnimationResolveRef = 3
    /\ Cardinality(StepFrames) = 1
    /\ \A k \in StepFrames : frames[k].resolve = 3 /\ frames[k].from # FULL_VIEWBOX
\* C30: the transient label phases are left: when frame callbacks, timers
\* and continuations are run fairly, a label that is entering becomes
\* visible or is removed, a label that is exiting is removed (activeLabel
\* becomes null or the entering label of the selected country), and once no
\* further selection is made no label stays entering or exiting, whatever
\* selections were interleaved before.
C30_TransientPhasesEnd ==
    /\ (activeLabel # NoLabel /\ activeLabel.phase = "entering")
          ~> (activeLabel = NoLabel \/ activeLabel.phase = "visible")
    /\ (activeLabel # NoLabel /\ activeLabel.phase = "exiting")
          ~> \/ activeLabel = NoLabel
             \/ /\ activeLabel.phase = "entering"
                /\ activeLabel.countryName = selectedCountry
    /\ <>[](activeLabel = NoLabel \/ activeLabel.phase = "visible")

\* After three selections the label of the selected country is entering
\* while the timer of no earlier run is left.
C30_Witness ==
    /\ clicks >= 3
    /\ activeLabel # NoLabel
    /\ activeLabel.phase = "entering"
    /\ activeLabel.countryName = selectedCountry
    /\ \E k \in 1..Len(frames) :
          frames[k].kind = "flip" /\ frames[k].runId = transitionRunRef
\* The least and greatest of a non-empty finite set of numbers.
SetMin(S) == CHOOSE v \in S : \A w \in S : v <= w
SetMax(S) == CHOOSE v \in S : \A w \in S : v >= w

\* The MapPaths of a result that carry the country name N.
PathsNamed(result, N) ==
    {n \in 1..Len(result.paths) : result.paths[n].countryName = N}

\* C31: when buildMapPaths returns, every MapPath is tagged consistently: it
\* has isAsean = true and a non-null countryName (the table's name) exactly
\* when its feature's iso3 is one of the membership table's entries;
\* countryBounds has a key N exactly when some MapPath has countryName N, the
\* value being the component-wise min/max union of the bounds of all the
\* MapPaths of that name, across polygons and features; paths of non-members
\* contribute nothing.
C31_PathsTaggedAndBoundsMerged ==
    (fnOut # <<>> /\ fnOut[1].outcome = "returned") =>
        LET result == fnOut[1]
            featureOf(n) == fnIn.features[result.paths[n].key[2] + 1]
            member(n) == featureOf(n).iso3 \in DOMAIN ISO3_TO_JA
        IN  /\ \A n \in 1..Len(result.paths) :
                  /\ result.paths[n].isAsean <=> member(n)
                  /\ result.paths[n].countryName # NoCountry <=> member(n)
                  /\ member(n) =>
                        result.paths[n].countryName = ISO3_TO_JA[featureOf(n).iso3]
            /\ DOMAIN result.countryBounds =
                  {result.paths[n].countryName : n \in 1..Len(result.paths)}
                      \ {NoCountry}
            /\ \A N \in DOMAIN result.countryBounds :
                  result.countryBounds[N] =
                      [minX |-> SetMin({result.paths[n].bounds.minX : n \in PathsNamed(result, N)}),
                       minY |-> SetMin({result.paths[n].bounds.minY : n \in PathsNamed(result, N)}),
                       maxX |-> SetMax({result.paths[n].bounds.maxX : n \in PathsNamed(result, N)}),
                       maxY |-> SetMax({result.paths[n].bounds.maxY : n \in PathsNamed(result, N)})]

\* buildMapPaths has been applied to a context feature and a member feature
\* with two polygons: three MapPaths, two of them named Thailand, whose
\* merged bounds differ from the bounds of either.
C31_Witness ==
    /\ fnOut # <<>>
    /\ fnOut[1].outcome = "returned"
    /\ Len(fnOut[1].paths) = 3
    /\ ~fnOut[1].paths[1].isAsean
    /\ DOMAIN fnOut[1].countryBounds = {Thailand}
    /\ Cardinality(PathsNamed(fnOut[1], Thailand)) = 2
    /\ \A n \in PathsNamed(fnOut[1], Thailand) :
          fnOut[1].paths[n].bounds # fnOut[1].countryBounds[Thailand]
(***************************************************************************)
(* Polygons for polygonToPathData (App.tsx 674-714): a ring is any list of *)
(* up to MaxRing entries, each a coordinate pair of the test payload or a  *)
(* malformed entry (null, an array of one number); a polygon is one such   *)
(* ring alone, or next to a ring of two valid points or to an element that *)
(* is not an array.  The projector is the one buildMapPaths makes for the  *)
(* test payload.                                                           *)
(***************************************************************************)
RingEntries == {Point(95, 25), Point(99, 20), Null, Arr(<<Num(95)>>)}

RECURSIVE RingsUpTo(_)
RingsUpTo(n) ==
    IF n = 0 THEN {<<>>}
    ELSE RingsUpTo(n - 1)
         \cup {Append(r, e) : r \in RingsUpTo(n - 1), e \in RingEntries}

OtherRings == {Arr(<<Point(102, 15), Point(99, 20)>>), Null}

TestPolygons ==
    {Arr(<<Arr(r)>>) : r \in RingsUpTo(MaxRing)}
    \cup {Arr(<<Arr(r), o>>) : r \in RingsUpTo(MaxRing), o \in OtherRings}
    \cup {Arr(<<o, Arr(r)>>) : r \in RingsUpTo(MaxRing), o \in OtherRings}

TestProjector == createProjector(TestFeatures, TestFeatures, ASEAN_FOCUS_PADDING)

InitPoly ==
    /\ PureInit
    /\ fnIn \in {[fn |-> "polygonToPathData", polygon |-> pg] : pg \in TestPolygons}
    /\ fnOut = <<>>

ApplyPolygonToPathData ==
    /\ fnOut = <<>>
    /\ fnOut' = <<polygonToPathData(fnIn.polygon, TestProjector)>>
    /\ UNCHANGED fnIn
    /\ UNCHANGED progVars

NextPoly == ApplyPolygonToPathData

SpecPoly == InitPoly /\ [][NextPoly]_vars

\* The valid coordinate points of a ring, in ring order, and their number.
IsValidPoint(entry) == isCoordinate(entry)
ValidOf(ring) == IF IsArray(ring) THEN SelectSeq(ring.v, IsValidPoint) ELSE <<>>
ValidCount(ring) == Len(ValidOf(ring))

\* The projection of a valid coordinate point.
Projected(point) == project(TestProjector, <<point.v[1].v, point.v[2].v>>)

\* What a ring is to emit: a move-to for its first valid point, a line-to
\* for each later one, and a close.
RingCommands(ring) ==
    [k \in 1..ValidCount(ring) |->
        [op |-> IF k = 1 THEN "M" ELSE "L",
         x |-> fmt(Projected(ValidOf(ring)[k])[1]),
         y |-> fmt(Projected(ValidOf(ring)[k])[2])]]
    \o <<[op |-> "Z", x |-> 0, y |-> 0]>>

\* The rings of a polygon with at least two valid coordinate points.
ContributingRings(polygon) ==
    SelectSeq(polygon.v, LAMBDA ring : ValidCount(ring) >= 2)

RECURSIVE CommandsOf(_)
CommandsOf(rings) ==
    IF rings = <<>> THEN <<>>
    ELSE RingCommands(Head(rings)) \o CommandsOf(Tail(rings))

\* C32: for every ring that contributes commands polygonToPathData emits one
\* move-to for the ring's first valid coordinate point, a line-to for each
\* later valid point in ring order, and one close; a malformed entry at any
\* position of the ring, the first included, emits nothing and leaves that
\* structure alone, so every ring's commands start with a move-to.  (Stated
\* for the polygons none of whose rings has exactly one valid point.)
C32_RingCommandsStartWithMoveTo ==
    (/\ fnOut # <<>>
     /\ fnOut[1].outcome = "data"
     /\ \A k \in 1..Len(fnIn.polygon.v) : ValidCount(fnIn.polygon.v[k]) # 1)
    => /\ fnOut[1].d = CommandsOf(ContributingRings(fnIn.polygon))
       /\ fnOut[1].d[1].op = "M"
       /\ \A k \in 2..Len(fnOut[1].d) :
             fnOut[1].d[k].op = "M" <=> fnOut[1].d[k - 1].op = "Z"

\* polygonToPathData has been applied to a ring whose first entry is
\* malformed and whose two later entries are valid points.
C32_Witness ==
    /\ fnOut # <<>>
    /\ fnIn.polygon = Arr(<<Arr(<<Null, Point(95, 25), Point(99, 20)>>)>>)
    /\ fnOut[1].outcome = "data"
\* The projections of the valid points of the contributing rings of a polygon.
ContributingPoints(polygon) ==
    UNION {{Projected(ValidOf(polygon.v[k])[n]) : n \in 1..ValidCount(polygon.v[k])} :
              k \in {j \in 1..Len(polygon.v) : ValidCount(polygon.v[j]) >= 2}}

RECURSIVE SumOf(_)
SumOf(counts) == IF counts = <<>> THEN 0 ELSE Head(counts) + SumOf(Tail(counts))

\* C33: only rings with at least 2 valid coordinate points contribute to
\* what polygonToPathData returns: a ring with fewer (whatever its raw
\* length) emits no command and leaves the bounds alone; the function
\* returns null exactly when no ring contributes, and otherwise bounds that
\* are the finite min/max over the projected valid points of the
\* contributing rings of this polygon, with minX <= maxX and minY <= maxY.
C33_OnlyRingsWithTwoPointsContribute ==
    fnOut # <<>> =>
        LET contributing == ContributingRings(fnIn.polygon)
            points == ContributingPoints(fnIn.polygon)
            out == fnOut[1]
        IN  /\ out.outcome = "null" <=> contributing = <<>>
            /\ out.outcome = "data" =>
                  /\ Len(out.d) =
                        SumOf([k \in 1..Len(contributing) |->
                                  ValidCount(contributing[k]) + 1])
                  /\ Cardinality({k \in 1..Len(out.d) : out.d[k].op = "Z"})
                        = Len(contributing)
                  /\ points # {}
                  /\ out.bounds =
                        [minX |-> SetMin({xy[1] : xy \in points}),
                         minY |-> SetMin({xy[2] : xy \in points}),
                         maxX |-> SetMax({xy[1] : xy \in points}),
                         maxY |-> SetMax({xy[2] : xy \in points})]
                  /\ IsFinite(out.bounds.minX) /\ IsFinite(out.bounds.maxX)
                  /\ IsFinite(out.bounds.minY) /\ IsFinite(out.bounds.maxY)
                  /\ out.bounds.minX <= out.bounds.maxX
                  /\ out.bounds.minY <= out.bounds.maxY

\* polygonToPathData has been applied to a polygon with a ring of two valid
\* points and a ring of raw length three with a single valid point.
C33_Witness ==
    /\ fnOut # <<>>
    /\ fnIn.polygon = Arr(<<Arr(<<Point(102, 15), Point(99, 20)>>),
                            Arr(<<Null, Point(95, 25), Null>>)>>)
    /\ fnOut[1].outcome = "data"
(***************************************************************************)
(* renderMapBody, App.tsx 1149-1213, with the split of the MapPaths into   *)
(* contextPaths and aseanPaths of 1046-1048 (their order, 1050-1061, is    *)
(* left out).  shapes are the <path> elements that carry tabIndex and the  *)
(* click, key and hover handlers; context are the aria-hidden ones.        *)
(***************************************************************************)
IsContextPath(path) == ~path.isAsean
IsAseanPath(path) == path.isAsean

NoBody(body) == [body |-> body, context |-> {}, shapes |-> {}]

RenderLoadingFirst(err, paths) ==
    IF Len(paths) = 0 THEN NoBody("loading")
    ELSE IF err # "" THEN NoBody("error")
    ELSE [body |-> "shapes",
          context |-> {[key |-> p.key] :
                          p \in {SelectSeq(paths, IsContextPath)[n] :
                                    n \in 1..Len(SelectSeq(paths, IsContextPath))}},
          shapes |-> {[key |-> p.key, countryName |-> p.countryName] :
                         p \in {q \in {SelectSeq(paths, IsAseanPath)[n] :
                                          n \in 1..Len(SelectSeq(paths, IsAseanPath))} :
                                   q.countryName # NoCountry}}]

renderMapBody(err, paths) ==
    IF err # "" THEN NoBody("error")
    ELSE IF Len(paths) = 0 THEN NoBody("loading")
    ELSE [body |-> "shapes",
          context |-> {[key |-> p.key] :
                          p \in {SelectSeq(paths, IsContextPath)[n] :
                                    n \in 1..Len(SelectSeq(paths, IsContextPath))}},
          shapes |-> {[key |-> p.key, countryName |-> p.countryName] :
                         p \in {q \in {SelectSeq(paths, IsAseanPath)[n] :
                                          n \in 1..Len(SelectSeq(paths, IsAseanPath))} :
                                   q.countryName # NoCountry}}]

\* What the mounted component renders inside the map surface: the MapPaths
\* are those of the geoFeatures (the useMemo of App.tsx 898).
MapPaths == buildMapPaths(geoFeatures).paths
MapBody == renderMapBody(mapError, MapPaths)

\* C34: the map surface shows exactly one of three bodies, decided in this
\* order: the error message when mapError is non-empty, otherwise the
\* loading placeholder when the MapPath list is empty (which, with an empty
\* countryBounds, is what buildMapPaths returns for an empty feature list),
\* otherwise the country shapes.  When no shapes are rendered no country is
\* selectable, and the interactive shapes are those of the member paths,
\* never of a context path.
C34_MapBodyIsOneOfThree ==
    mounted =>
        /\ MapBody.body = "error" <=> mapError # ""
        /\ MapBody.body = "loading" <=> (mapError = "" /\ MapPaths = <<>>)
        /\ MapBody.body = "shapes" <=> (mapError = "" /\ MapPaths # <<>>)
        /\ geoFeatures = <<>> =>
              /\ MapPaths = <<>>
              /\ buildMapPaths(geoFeatures).countryBounds = NoBounds
        /\ MapBody.body # "shapes" =>
              /\ MapBody.shapes = {}
              /\ MapBody.context = {}
              /\ DOMAIN countryBounds = {}
              /\ selectedCountry = "all"
        /\ \A n \in 1..Len(MapPaths) :
              /\ MapPaths[n].isAsean =>
                    /\ MapBody.body = "shapes" =>
                          [key |-> MapPaths[n].key,
                           countryName |-> MapPaths[n].countryName] \in MapBody.shapes
                    /\ MapPaths[n].countryName \in DOMAIN countryBounds
              /\ ~MapPaths[n].isAsean =>
                    /\ \A s \in MapBody.shapes : s.key # MapPaths[n].key
                    /\ MapBody.body = "shapes" =>
                          [key |-> MapPaths[n].key] \in MapBody.context
        /\ \A s \in MapBody.shapes :
              /\ s.countryName \in DOMAIN countryBounds
              /\ \E n \in 1..Len(MapPaths) :
                    MapPaths[n].key = s.key /\ MapPaths[n].isAsean

\* Both candidates have failed: mapError is set while the MapPath list is
\* empty, and the error message is what the surface shows.
C34_Witness ==
    /\ mounted
    /\ loader.state = "raised"
    /\ mapError # ""
    /\ MapPaths = <<>>
    /\ MapBody.body = "error"

\* The map data has arrived: member and context shapes are rendered.
C34_ShapesRendered ==
    /\ mounted
    /\ MapBody.body = "shapes"
    /\ MapBody.context # {}
    /\ Cardinality(MapBody.shapes) = 2
(***************************************************************************)
(* The component with its unmount: the cleanup of App.tsx 881-896 runs     *)
(* between tasks, once the continuations of the last handler have run.     *)
(* The host goes on running the callbacks that are still pending.          *)
(***************************************************************************)
UnmountBetweenTasks ==
    /\ micro = <<>>
    /\ Unmount

NextUnmount ==
    \/ Next
    \/ UnmountBetweenTasks

SpecUnmount == Init /\ [][NextUnmount]_vars

\* C35: unmounting while a zoom animation or a label-exit timer is pending
\* leaves no viewBox frame callback and no exit timer pending and resolves
\* the pending animation promise; afterwards activeLabel and viewBox do not
\* change any more and no new frame callback is scheduled, not even by the
\* run that this resolution has resumed.
C35_UnmountStopsEverything ==
    /\ [][Unmount =>
            /\ \A k \in 1..Len(frames') : frames'[k].kind # "step"
            /\ timers' = {}
            /\ viewBoxAnimationRef' = 0
            /\ viewBoxAnimationResolveRef' = 0
            /\ labelExitTimerRef' = 0
            /\ \A r \in animPromises' : r.p # viewBoxAnimationResolveRef]_vars
    /\ [][~mounted =>
            /\ activeLabel' = activeLabel
            /\ viewBox' = viewBox
            /\ \A k \in 1..Len(frames') :
                  \E j \in 1..Len(frames) : frames[j] = frames'[k]]_vars

\* The component was unmounted during the zoom to the selected country, and
\* the run resumed by the cleanup has asked for a frame.
C35_Witness ==
    /\ ~mounted
    /\ selectedCountry # "all"
    /\ activeLabel = NoLabel
    /\ micro = <<>>
    /\ \E k \in 1..Len(frames) :
          /\ frames[k].kind = "flip"
          /\ frames[k].runId = transitionRunRef
          /\ frames[k].countryName = selectedCountry
====
